---- MODULE Spec2Model ----
(***************************************************************************)
(* Model of scripts/build_osm_network.py: the station clustering, the      *)
(* snapping of line endpoints to buses, the repair of overpassing lines    *)
(* and the small helpers they use.                                         *)
(*                                                                         *)
(* Geometry is one-dimensional where the code only measures distances:     *)
(* a point is an integer number of metres in the distance CRS, a line or a *)
(* polygon is an interval, the distance of two points is |x - y|.          *)
(* A table (DataFrame) is a sequence of records in row order.              *)
(***************************************************************************)
EXTENDS Integers, Sequences, FiniteSets, TLC

VARIABLES
    pc,             \* position of the run
    \* ---- set_substations_ids
    sbuses,         \* the copy of the bus table: rows [pos, station_id]
    si,             \* row the for loop is at (1-based)
    station_id,     \* the counter of station ids
    branch,         \* the branch the last iteration of the loop took
    \* ---- get_ac_frequency
    fr_col,         \* the frequency column of the table
    ac_freq_default,\* the value returned
    \* ---- fix_overpassing_lines
    olines,         \* the line table: rows [line_id, geometry, length]
    obuses,         \* the bus table: rows [x, y]
    ol,             \* row of lines the for loop is at
    lines_to_split, \* rows of lines that have been split
    lines_to_add,   \* rows to be added
    buses_locs,     \* the split points of the last iteration
    \* ---- build_network
    buses,          \* the bus table read (rows in file order)
    buses_polygon,  \* the substation polygons read
    lines,          \* the AC lines
    links,          \* the DC links
    stations,       \* the station seeds
    buses_all,      \* the bus table being clustered
    ret,            \* what merge_stations_lines_by_station_id_and_voltage returned
    out,            \* what build_network returned
    \* ---- get_transformers, set_lv_substations, _find_closest_bus
    tbuses,         \* the bus table passed
    tfreq,          \* the column tag_frequency of the line table passed
    transformers,   \* the table get_transformers returned
    crow,           \* the bus_id _find_closest_bus is asked about
    closest_bus_id, \* what _find_closest_bus returned
    \* ---- build_renewable_profiles
    regions,        \* the regions table read: the names, in row order
    technology,     \* snakemake.wildcards.technology, split at "-"
    correction_factor, \* params.get("correction_factor", 1.0)
    params,         \* the thresholds read from params so far
    availability,   \* the availability matrix, bus -> cell -> share
    profile,        \* the profile returned by the conversion function
    ds,             \* the dataset, variable name -> values
    written,        \* the dataset written to the profile file
    \* ---- _create_merge_mapping, _merge_lines_over_virtual_buses
    mlines,         \* the line table passed
    mbuses,         \* the bus table passed
    mpolygons,      \* the substation polygons passed
    merged_lines_map, \* the mapping _create_merge_mapping returned
    lines_merged,   \* the line table _merge_lines_over_virtual_buses returned
    buses_merged    \* the bus table _merge_lines_over_virtual_buses returned

varsS == <<sbuses, si, station_id, branch>>
varsF == <<fr_col, ac_freq_default>>
varsO == <<olines, obuses, ol, lines_to_split, lines_to_add, buses_locs>>
varsP == <<buses, buses_polygon, lines, links, stations, buses_all, ret, out>>
varsD == <<tbuses, tfreq, transformers, crow, closest_bus_id>>
varsR == <<regions, technology, correction_factor, params, availability, profile,
           ds, written>>
varsM == <<mlines, mbuses, mpolygons, merged_lines_map, lines_merged, buses_merged>>
varsN == <<varsD, varsR, varsM>>
vars == <<pc, varsS, varsF, varsO, varsP, varsN>>

\* the variables of the other functions, while one function runs
IdleS == sbuses = <<>> /\ si = 0 /\ station_id = 0 /\ branch = "none"
IdleF == fr_col = <<>> /\ ac_freq_default = [type |-> "unset", val |-> ""]
IdleO == /\ olines = <<>> /\ obuses = <<>> /\ ol = 0 /\ lines_to_split = <<>>
         /\ lines_to_add = <<>> /\ buses_locs = <<>>
IdleP == /\ buses = <<>> /\ buses_polygon = <<>> /\ lines = <<>> /\ links = <<>>
         /\ stations = <<>> /\ buses_all = <<>> /\ ret = <<>> /\ out = <<>>

IdleD == /\ tbuses = <<>> /\ tfreq = <<>> /\ transformers = <<>> /\ crow = 0
         /\ closest_bus_id = [type |-> "unset", val |-> ""]
IdleR == /\ regions = <<>> /\ technology = <<>> /\ correction_factor = 0
         /\ params = <<>> /\ availability = <<>> /\ profile = <<>> /\ ds = <<>>
         /\ written = <<>>
IdleM == /\ mlines = <<>> /\ mbuses = <<>> /\ mpolygons = <<>>
         /\ merged_lines_map = <<>> /\ lines_merged = <<>> /\ buses_merged = <<>>
IdleN == IdleD /\ IdleR /\ IdleM
IdleOld == IdleS /\ IdleF /\ IdleO /\ IdleP

\* ------------------------------------------------------------- helpers

Abs(x) == IF x < 0 THEN -x ELSE x

\* shapely distance of two points of the line
Dist(p, q) == Abs(p - q)

Max(S) == CHOOSE x \in S : \A y \in S : y <= x
Min(S) == CHOOSE x \in S : \A y \in S : x <= y

\* all sequences over S of length lo..hi
SeqsOf(S, lo, hi) == UNION {[1..n -> S] : n \in lo..hi}

\* BUS_TOL, metres
BUS_TOL == 500

\* a Python value: a str, an int, or nothing assigned yet
StrVal(x) == [type |-> "str", val |-> x]
IntVal(x) == [type |-> "int", val |-> x]
Unset == [type |-> "unset", val |-> ""]

\* ------------------------------------------------ set_substations_ids

\* Bounds of the inputs of set_substations_ids: buses lie on a grid of
\* BUS_TOL metres, cells 0..MaxIdsCell, at most MaxIdsBuses rows.
MaxIdsCell == 4
MaxIdsBuses == 5

IdsPositions == {BUS_TOL * k : k \in 0..MaxIdsCell}

\* np.flatnonzero(temp_bus_geom.distance(temp_bus_geom.loc[i]) <= tol):
\* the rows within tol of row i, an increasing list of row numbers
close_nodes(tbl, i, tol) ==
    {j \in 1..Len(tbl) : Dist(tbl[j].pos, tbl[i].pos) <= tol}

\* buses.loc[buses.index[close_nodes], "station_id"] = id
SetStationId(tbl, rows, i, id) ==
    [j \in 1..Len(tbl) |-> IF j \in rows THEN [tbl[j] EXCEPT !.station_id = id] ELSE tbl[j]]

\* (mutant: the last non-negative id of the subset is picked)
LastNonNegative(tbl, rows) ==
    tbl[Max({j \in rows : tbl[j].station_id >= 0})].station_id

\* for substation_id in subset_substation_ids: if substation_id >= 0: break
FirstNonNegative(tbl, rows) ==
    tbl[Min({j \in rows : tbl[j].station_id >= 0})].station_id

\* buses = buses.copy(); buses["station_id"] = -1; station_id = 0
InitIds ==
    /\ pc = "ids_loop"
    /\ \E ps \in SeqsOf(IdsPositions, 1, MaxIdsBuses) :
          sbuses = [j \in 1..Len(ps) |-> [pos |-> ps[j], station_id |-> -1]]
    /\ si = 1
    /\ station_id = 0
    /\ branch = "none"
    /\ IdleF /\ IdleO /\ IdleP /\ IdleN

\* if buses.loc[i, "station_id"] >= 0: continue
IdsSkip ==
    /\ pc = "ids_loop" /\ si <= Len(sbuses)
    /\ sbuses[si].station_id >= 0
    /\ si' = si + 1
    /\ branch' = "skip"
    /\ UNCHANGED <<pc, sbuses, station_id, varsF, varsO, varsP, varsN>>

\* len(close_nodes) == 1: the row itself gets a new id
IdsSingle ==
    /\ pc = "ids_loop" /\ si <= Len(sbuses)
    /\ sbuses[si].station_id < 0
    /\ Cardinality(close_nodes(sbuses, si, BUS_TOL)) = 1
    /\ sbuses' = [sbuses EXCEPT ![si].station_id = station_id]
    /\ station_id' = station_id + 1
    /\ si' = si + 1
    /\ branch' = "single"
    /\ UNCHANGED <<pc, varsF, varsO, varsP, varsN>>

\* all_neg: every row within tol gets the new id
IdsAllNeg ==
    /\ pc = "ids_loop" /\ si <= Len(sbuses)
    /\ sbuses[si].station_id < 0
    /\ LET cn == close_nodes(sbuses, si, BUS_TOL) IN
        /\ Cardinality(cn) # 1
        /\ Max({sbuses[j].station_id : j \in cn}) < 0
        /\ sbuses' = SetStationId(sbuses, cn, si, station_id)
    /\ station_id' = station_id + 1
    /\ si' = si + 1
    /\ branch' = "all_neg"
    /\ UNCHANGED <<pc, varsF, varsO, varsP, varsN>>

\* elif some_neg: every row within tol gets the first non-negative id
IdsSomeNeg ==
    /\ pc = "ids_loop" /\ si <= Len(sbuses)
    /\ sbuses[si].station_id < 0
    /\ LET cn == close_nodes(sbuses, si, BUS_TOL) IN
        /\ Cardinality(cn) # 1
        /\ ~ (Max({sbuses[j].station_id : j \in cn}) < 0)
        /\ Min({sbuses[j].station_id : j \in cn}) < 0
        /\ sbuses' = SetStationId(sbuses, cn, si, FirstNonNegative(sbuses, cn))
    /\ si' = si + 1
    /\ branch' = "some_neg"
    /\ UNCHANGED <<pc, station_id, varsF, varsO, varsP, varsN>>

\* the loop is over: buses["station_id"] = prefix + astype(str); return
IdsReturn ==
    /\ pc = "ids_loop" /\ si > Len(sbuses)
    /\ pc' = "ids_done"
    /\ UNCHANGED <<sbuses, si, station_id, branch, varsF, varsO, varsP, varsN>>

NextIds == IdsSkip \/ IdsSingle \/ IdsAllNeg \/ IdsSomeNeg \/ IdsReturn

SpecIds == InitIds /\ [][NextIds]_vars

\* C8: after set_substations_ids, any two buses whose distance is at most
\* tol have the same station_id, whatever the buses and their row order.
C8_CloseBusesShareStation ==
    pc = "ids_done" =>
        \A i, j \in 1..Len(sbuses) :
            Dist(sbuses[i].pos, sbuses[j].pos) <= BUS_TOL
                => sbuses[i].station_id = sbuses[j].station_id

\* C9: one iteration of the loop of set_substations_ids. A row that has an
\* id is skipped. For a row without one: when no row within tol has an id,
\* all of them get the counter's value and the counter advances by one;
\* otherwise all of them get the id of the first row within tol (in table
\* order) that has one, and the counter stays. Rows farther than tol keep
\* their id.
C9_Iteration ==
    [][ (pc = "ids_loop" /\ si <= Len(sbuses)) =>
          LET near == {j \in 1..Len(sbuses) :
                          Abs(sbuses[j].pos - sbuses[si].pos) <= BUS_TOL}
              have == {j \in near : sbuses[j].station_id >= 0}
              far  == (1..Len(sbuses)) \ near
          IN  /\ Len(sbuses') = Len(sbuses)
              /\ \A j \in 1..Len(sbuses) : sbuses'[j].pos = sbuses[j].pos
              /\ IF sbuses[si].station_id >= 0
                    THEN sbuses' = sbuses /\ station_id' = station_id
                 ELSE IF have = {}
                    THEN /\ \A j \in near : sbuses'[j].station_id = station_id
                         /\ \A j \in far : sbuses'[j].station_id = sbuses[j].station_id
                         /\ station_id' = station_id + 1
                 ELSE
                    LET first == CHOOSE j \in have : \A k \in have : j <= k IN
                         /\ \A j \in near :
                               sbuses'[j].station_id = sbuses[first].station_id
                         /\ \A j \in far : sbuses'[j].station_id = sbuses[j].station_id
                         /\ station_id' = station_id
    ]_vars

\* C9 witness: the row just processed took the id of the first of two rows
\* within tol that carried different ids.
C9_Witness ==
    /\ pc = "ids_loop" /\ branch = "some_neg" /\ si > 1
    /\ \E j, k \in 1..Len(sbuses) :
          /\ j < k
          /\ Dist(sbuses[j].pos, sbuses[si - 1].pos) <= BUS_TOL
          /\ Dist(sbuses[k].pos, sbuses[si - 1].pos) <= BUS_TOL
          /\ Dist(sbuses[j].pos, sbuses[k].pos) > BUS_TOL
          /\ sbuses[j].station_id = sbuses[si - 1].station_id
          /\ sbuses[k].station_id = sbuses[si - 1].station_id
          /\ station_id >= 2


\* --------------------------------------------------- get_ac_frequency

\* Bound of the input of get_ac_frequency: rows of the table.
MaxFreqRows == 3

\* the values of the column tag_frequency; "nan" is a missing value
FreqValues == {"0", "50", "60", "nan"}

\* df[fr_col].value_counts(sort=True, dropna=True): the count of every
\* value that occurs, missing values dropped
grid_freq_levels(col) ==
    [v \in {col[i] : i \in DOMAIN col} \ {"nan"} |->
        Cardinality({i \in DOMAIN col : col[i] = v})]

\* grid_freq_levels.loc[grid_freq_levels.index.get_level_values(0) != "0"]
ac_freq_levels(col) ==
    LET g == grid_freq_levels(col) IN [v \in DOMAIN g \ {"0"} |-> g[v]]

\* the values that can be first in the index of a count table sorted by
\* descending count (the order among equal counts is the sort's)
FirstOfSorted(levels) ==
    {v \in DOMAIN levels : \A w \in DOMAIN levels : levels[w] <= levels[v]}

InitFreq ==
    /\ pc = "freq_call"
    /\ fr_col \in SeqsOf(FreqValues, 0, MaxFreqRows)
    /\ ac_freq_default = Unset
    /\ IdleS /\ IdleO /\ IdleP /\ IdleN

\* grid_freq_levels.empty: the back-up value is returned
FreqBackup ==
    /\ pc = "freq_call"
    /\ DOMAIN grid_freq_levels(fr_col) = {}
    /\ ac_freq_default' = IntVal("50")
    /\ pc' = "freq_done"
    /\ UNCHANGED <<fr_col, varsS, varsO, varsP, varsN>>

\* ac_freq_default = ac_freq_levels.index.get_level_values(0)[0]
FreqMostUsual ==
    /\ pc = "freq_call"
    /\ DOMAIN grid_freq_levels(fr_col) # {}
    /\ \E v \in FirstOfSorted(ac_freq_levels(fr_col)) :
          ac_freq_default' = StrVal(v)
    /\ pc' = "freq_done"
    /\ UNCHANGED <<fr_col, varsS, varsO, varsP, varsN>>

\* ...[0] of an empty index: IndexError
FreqIndexError ==
    /\ pc = "freq_call"
    /\ DOMAIN grid_freq_levels(fr_col) # {}
    /\ DOMAIN ac_freq_levels(fr_col) = {}
    /\ pc' = "freq_error"
    /\ UNCHANGED <<fr_col, ac_freq_default, varsS, varsO, varsP, varsN>>

NextFreq == FreqBackup \/ FreqMostUsual \/ FreqIndexError

SpecFreq == InitFreq /\ [][NextFreq]_vars

\* C10: get_ac_frequency never fails; it returns a most frequent value of
\* the column other than "0", and the back-up value 50 when the column
\* has no value other than "0" and missing ones.
C10_MostUsualOrBackup ==
    LET nonzero == {fr_col[i] : i \in DOMAIN fr_col} \ {"0", "nan"}
        n(v) == Cardinality({i \in DOMAIN fr_col : fr_col[i] = v})
    IN  /\ pc # "freq_error"
        /\ pc = "freq_done" =>
              IF nonzero = {}
                THEN ac_freq_default = IntVal("50")
                ELSE /\ ac_freq_default.type = "str"
                     /\ ac_freq_default.val \in nonzero
                     /\ \A w \in nonzero : n(w) <= n(ac_freq_default.val)

\* ---------------------------------------------- fix_overpassing_lines
\* Here a point is [x, y] in metres, a line is a segment of the x axis
\* from p0 to p1, p0 < p1; distances are compared by their squares.

\* Bounds of the inputs of fix_overpassing_lines.
MaxOvPos == 3
MaxOvLines == 1
MaxOvBuses == 2

\* tol=1 of fix_overpassing_lines, metres
OverpassTol == 1

Sq(x) == x * x

\* squared distance of point b to the point (x, 0)
DistSqPoint(b, x) == Sq(b.x - x) + Sq(b.y)

\* squared distance of point b to the segment g
DistSqLine(b, g) ==
    IF b.x < g.p0 THEN DistSqPoint(b, g.p0)
    ELSE IF b.x > g.p1 THEN DistSqPoint(b, g.p1)
    ELSE Sq(b.y)

\* shapely.ops.split(l, p): the line is cut where p lies in its interior
SplitOne(g, b) ==
    IF b.y = 0 /\ g.p0 < b.x /\ b.x < g.p1
        THEN << [p0 |-> g.p0, p1 |-> b.x], [p0 |-> b.x, p1 |-> g.p1] >>
        ELSE << g >>

RECURSIVE Flatten(_)
Flatten(ss) == IF ss = <<>> THEN <<>> ELSE Head(ss) \o Flatten(Tail(ss))

RECURSIVE _split_linestring_by_point(_, _)
_split_linestring_by_point(list_linestrings, points) ==
    IF points = <<>> THEN list_linestrings
    ELSE _split_linestring_by_point(
            Flatten([k \in 1..Len(list_linestrings) |->
                        SplitOne(list_linestrings[k], Head(points))]),
            Tail(points))

\* buses_epsgmod[buses_epsgmod.geometry.distance(line) <= tol], then
\* bus_in_tol_epsg[(dist_to_ep0 > tol) | (dist_to_ep1 > tol)]
bus_in_tol_epsg(btbl, g, tol) ==
    LET InTol(b) == DistSqLine(b, g) <= Sq(tol)
        NotEnding(b) == DistSqPoint(b, g.p0) > Sq(tol) \/ DistSqPoint(b, g.p1) > Sq(tol)
    IN  SelectSeq(SelectSeq(btbl, InTol), NotEnding)

\* line_id of segment k of n: "<id>-<letter>" when n > 1, else "<id>"
\* letter 0 stands for no suffix, k for the k-th letter of ascii_lowercase
SegmentId(id, k, n) == [base |-> id.base, letter |-> IF n > 1 THEN k ELSE id.letter]

\* the number of letters of string.ascii_lowercase
ascii_lowercase == 26

\* [... for letter in string.ascii_lowercase[:n_geoms]]: one id for each of
\* the first n_geoms letters, of which there are no more than 26
segment_line_ids(id, n) ==
    [k \in 1..(IF n <= ascii_lowercase THEN n ELSE ascii_lowercase) |-> SegmentId(id, k, n)]

OvPoints == {[x |-> x, y |-> y] : x \in 0..MaxOvPos, y \in 0..1}
OvSegments == {[p0 |-> a, p1 |-> b] : a \in 0..MaxOvPos, b \in 0..MaxOvPos} \ 
                 {g \in [p0 : 0..MaxOvPos, p1 : 0..MaxOvPos] : g.p0 >= g.p1}

InitOverpass ==
    /\ pc = "ov_loop"
    /\ \E gs \in SeqsOf(OvSegments, 1, MaxOvLines) :
          olines = [k \in 1..Len(gs) |->
                      [line_id |-> [base |-> k, letter |-> 0],
                       geometry |-> gs[k], length |-> gs[k].p1 - gs[k].p0]]
    /\ obuses \in SeqsOf(OvPoints, 1, MaxOvBuses)
    /\ ol = 1
    /\ lines_to_split = <<>>
    /\ lines_to_add = <<>>
    /\ buses_locs = <<>>
    /\ IdleS /\ IdleF /\ IdleP /\ IdleN

\* an iteration that finds no bus to split at
OvNoSplit ==
    /\ pc = "ov_loop" /\ ol <= Len(olines)
    /\ bus_in_tol_epsg(obuses, olines[ol].geometry, OverpassTol) = <<>>
    /\ ol' = ol + 1
    /\ buses_locs' = <<>>
    /\ UNCHANGED <<pc, olines, obuses, lines_to_split, lines_to_add, varsS, varsF, varsP, varsN>>

\* if not bus_in_tol_epsg.empty: the line is listed and its pieces added
OvSplit ==
    /\ pc = "ov_loop" /\ ol <= Len(olines)
    /\ LET sel == bus_in_tol_epsg(obuses, olines[ol].geometry, OverpassTol)
           new_geometries == _split_linestring_by_point(<<olines[ol].geometry>>, sel)
           n_geoms == Len(new_geometries)
           line_ids == segment_line_ids(olines[ol].line_id, n_geoms)
           df_append == [k \in 1..n_geoms |->
                            [line_id |-> line_ids[k],
                             geometry |-> new_geometries[k],
                             length |-> olines[ol].length]]
       IN  /\ sel # <<>>
           /\ Len(line_ids) = n_geoms
           /\ lines_to_split' = Append(lines_to_split, ol)
           /\ buses_locs' = sel
           /\ lines_to_add' = lines_to_add \o df_append
    /\ ol' = ol + 1
    /\ UNCHANGED <<pc, olines, obuses, varsS, varsF, varsP, varsN>>

\* df_append["line_id"] = [...] with fewer ids than rows: ValueError
OvSplitFails ==
    /\ pc = "ov_loop" /\ ol <= Len(olines)
    /\ LET sel == bus_in_tol_epsg(obuses, olines[ol].geometry, OverpassTol)
           n_geoms == Len(_split_linestring_by_point(<<olines[ol].geometry>>, sel))
       IN  /\ sel # <<>>
           /\ Len(segment_line_ids(olines[ol].line_id, n_geoms)) # n_geoms
           /\ lines_to_split' = Append(lines_to_split, ol)
           /\ buses_locs' = sel
    /\ pc' = "ov_error"
    /\ UNCHANGED <<olines, obuses, ol, lines_to_add, varsS, varsF, varsP, varsN>>

\* if not lines_to_add: return lines, buses
OvReturnSame ==
    /\ pc = "ov_loop" /\ ol > Len(olines)
    /\ lines_to_add = <<>>
    /\ pc' = "ov_done"
    /\ UNCHANGED <<varsO, varsS, varsF, varsP, varsN>>

\* the lengths are updated, the split lines dropped, the pieces appended
OvReturn ==
    /\ pc = "ov_loop" /\ ol > Len(olines)
    /\ lines_to_add # <<>>
    /\ LET df_to_add == [k \in 1..Len(lines_to_add) |->
                            [lines_to_add[k] EXCEPT
                                !.length = lines_to_add[k].geometry.p1
                                             - lines_to_add[k].geometry.p0]]
           listed == {lines_to_split[k] : k \in 1..Len(lines_to_split)}
           kept == [k \in 1..Len(olines) |-> IF k \in listed THEN <<>> ELSE <<olines[k]>>]
       IN  olines' = Flatten(kept) \o df_to_add
    /\ pc' = "ov_done"
    /\ UNCHANGED <<obuses, ol, lines_to_split, lines_to_add, buses_locs, varsS, varsF, varsP, varsN>>

NextOverpass == OvNoSplit \/ OvSplit \/ OvReturnSame \/ OvReturn

SpecOverpass == InitOverpass /\ [][NextOverpass]_vars

\* Bound of the input of the naming of the segments: buses that lie on
\* the line.
MaxSplitBuses == 27

\* a bus beside the line, within tol of it (y = 1) or not (y = 2), or none
SideBuses ==
    {<<>>} \cup {<< [x |-> x, y |-> y] >> : x \in 1..2, y \in 1..2}

\* one line along the x axis, k buses on it at x = 1, ..., k, and
\* possibly a bus beside it
InitSegments ==
    /\ pc = "ov_loop"
    /\ olines = << [line_id |-> [base |-> 1, letter |-> 0],
                    geometry |-> [p0 |-> 0, p1 |-> MaxSplitBuses + 1],
                    length |-> MaxSplitBuses + 1] >>
    /\ \E k \in 0..MaxSplitBuses, side \in SideBuses :
          /\ k > 0 \/ side # <<>>
          /\ obuses = [i \in 1..k |-> [x |-> i, y |-> 0]] \o side
    /\ ol = 1
    /\ lines_to_split = <<>>
    /\ lines_to_add = <<>>
    /\ buses_locs = <<>>
    /\ IdleS /\ IdleF /\ IdleP /\ IdleN

NextSegments == OvNoSplit \/ OvSplit \/ OvSplitFails \/ OvReturnSame \/ OvReturn

SpecSegments == InitSegments /\ [][NextSegments]_vars

\* the number of segments the line that was just looked at is split into
SegmentsOfLast ==
    Len(_split_linestring_by_point(<<olines[ol - 1].geometry>>, buses_locs))

\* C22: a line split into n >= 2 segments gives n rows with the line ids
\* "<id>-a", "<id>-b", ..., one for each segment and all distinct,
\* whatever n is; a line that gives one segment keeps its line id; the
\* call does not fail over the number of segments.
C22_SegmentsNamedByLetters ==
    /\ pc # "ov_error"
    /\ (pc = "ov_loop" /\ ol = 2 /\ lines_to_split = << 1 >>) =>
          /\ Len(lines_to_add) = SegmentsOfLast
          /\ \A k \in 1..Len(lines_to_add) :
                lines_to_add[k].line_id =
                    [base |-> olines[1].line_id.base,
                     letter |-> IF SegmentsOfLast >= 2 THEN k ELSE olines[1].line_id.letter]
          /\ \A j, k \in 1..Len(lines_to_add) :
                j # k => lines_to_add[j].line_id # lines_to_add[k].line_id

\* C22, for the calls that do not fail: the segments of a split line are
\* named by the first letters, and a single segment keeps the line id.
C22_NamedWhileLettersLast ==
    (pc = "ov_loop" /\ ol = 2 /\ lines_to_split = << 1 >>) =>
          /\ Len(lines_to_add) = SegmentsOfLast
          /\ SegmentsOfLast <= ascii_lowercase
          /\ \A k \in 1..Len(lines_to_add) :
                lines_to_add[k].line_id =
                    [base |-> olines[1].line_id.base,
                     letter |-> IF SegmentsOfLast >= 2 THEN k ELSE olines[1].line_id.letter]

\* C7: the buses at the endings of a line are excluded. No bus within tol
\* of an endpoint of the line is among the line's split points, and every
\* line listed for splitting has a bus within tol of the line that is
\* farther than tol from both of its endpoints.
C7_EndingsExcluded ==
    pc = "ov_loop" =>
        /\ ol > 1 =>
              \A k \in 1..Len(buses_locs) :
                  /\ DistSqPoint(buses_locs[k], olines[ol - 1].geometry.p0) > Sq(OverpassTol)
                  /\ DistSqPoint(buses_locs[k], olines[ol - 1].geometry.p1) > Sq(OverpassTol)
        /\ \A m \in 1..Len(lines_to_split) :
              \E k \in 1..Len(obuses) :
                  LET g == olines[lines_to_split[m]].geometry IN
                  /\ DistSqLine(obuses[k], g) <= Sq(OverpassTol)
                  /\ DistSqPoint(obuses[k], g.p0) > Sq(OverpassTol)
                  /\ DistSqPoint(obuses[k], g.p1) > Sq(OverpassTol)

\* ------------------------------------------------------- build_network
\* A string id is the sequence of its parts between "-"; a part is a text
\* followed by a number (n = -1: no number): "way/7-380" is
\* <<[s |-> "way/", n |-> 7], [s |-> "", n |-> 380]>>.

Tok(s, n) == [s |-> s, n |-> n]

\* bus ids of the input: "way/<n>-<kV>" for a mapped substation and
\* "line-end-<k>" for a line ending
WayBusId(n, kv) == << Tok("way/", n), Tok("", kv) >>
VirtualBusId(k) == << Tok("line", -1), Tok("end", -1), Tok("", k) >>

\* str.startswith("way/") | str.startswith("relation/")
StartsWithWayOrRelation(id) == Len(id) > 0 /\ id[1].s \in {"way/", "relation/"}

\* voltage.div(1e3).astype(int)
Kilovolts(v) == v \div 1000

\* the order of str on the texts that occur ("AA" < "BB" < "line" < "way/")
TextRank(t) ==
    CASE t = "" -> 0 [] t = "AA" -> 1 [] t = "BB" -> 2 [] t = "DC" -> 3
      [] t = "end" -> 4 [] t = "line" -> 5 [] t = "relation/" -> 6 [] t = "way/" -> 7

\* a < b for two ids, as str compares them (numbers below 10 in the first part)
IdLess(a, b) ==
    \/ a = <<>> /\ b # <<>>
    \/ /\ a # <<>> /\ b # <<>>
       /\ \/ TextRank(a[1].s) < TextRank(b[1].s)
          \/ a[1].s = b[1].s /\ a[1].n < b[1].n

\* Bounds of the inputs of build_network: buses lie on a grid of CellSize
\* metres, cells 0..MaxCell; a substation polygon reaches PolyHalf metres
\* to both sides of its bus; at most MaxBuses rows of buses.
CellSize == 600
MaxCell == 3
PolyHalf == 50
MaxBuses == 2

Voltages == {220000, 380000}

\* country_shapes: "AA" west of x = CellSize, "BB" from there on
CountryAt(x) == IF x < CellSize THEN "AA" ELSE "BB"

\* The bus rows an input can hold: substations (way/...) carry 380 kV,
\* line endings either voltage, DC line endings 380 kV.
BusKinds ==
    {k \in [way : BOOLEAN, cell : 0..MaxCell, voltage : Voltages, dc : BOOLEAN] :
        /\ k.way => ~k.dc
        /\ (k.way \/ k.dc) => k.voltage = 380000}

KindRank(k) ==
    ((k.cell * 2 + (IF k.voltage = 380000 THEN 1 ELSE 0)) * 2
        + (IF k.dc THEN 1 ELSE 0)) * 2 + (IF k.way THEN 1 ELSE 0)

\* the subsets of S with at most n elements
RECURSIVE SubsetsUpTo(_, _)
SubsetsUpTo(S, n) ==
    IF n = 0 THEN {{}}
    ELSE LET smaller == SubsetsUpTo(S, n - 1)
         IN  smaller \cup {T \cup {x} : T \in smaller, x \in S}

\* the bus table of a set of bus kinds, rows in the order of KindRank
BusTable(K) ==
    LET ordered == SortSeq(
            [i \in 1..Cardinality(K) |->
                CHOOSE k \in K : Cardinality({m \in K : KindRank(m) < KindRank(k)}) = i - 1],
            LAMBDA a, b : KindRank(a) < KindRank(b))
    IN  [i \in 1..Len(ordered) |->
            LET k == ordered[i] IN
            [index |-> i,
             bus_id |-> IF k.way THEN WayBusId(k.cell + 1, Kilovolts(k.voltage))
                                 ELSE VirtualBusId(KindRank(k)),
             station_id |-> IF k.way THEN << Tok("way/", k.cell + 1) >>
                                     ELSE VirtualBusId(KindRank(k)),
             voltage |-> k.voltage,
             dc |-> k.dc,
             country |-> CountryAt(CellSize * k.cell),
             geometry |-> CellSize * k.cell, lat |-> 0]]

\* the polygon table: one polygon for every substation bus, around it
PolygonTable(btbl) ==
    LET ways == SelectSeq(btbl, LAMBDA b : StartsWithWayOrRelation(b.bus_id))
    IN  [i \in 1..Len(ways) |->
            [bus_id |-> ways[i].bus_id, country |-> ways[i].country,
             voltage |-> ways[i].voltage, lat |-> ways[i].lat,
             lo |-> ways[i].geometry - PolyHalf, hi |-> ways[i].geometry + PolyHalf]]

\* ---- _create_station_seeds
\* A point has a longitude, in metres, and a latitude lat, the number of
\* the row of the grid it lies on, counted from south to north; the rows
\* are farther apart than any footprint reaches, so footprints of
\* different rows never meet.

\* polylabel(polygon): the interior point farthest from the boundary
polylabel(lo, hi) == (lo + hi) \div 2

\* filtered_buses[columns] buffered by tol, with its area; no poi yet
buses_buffer(btbl, tol) ==
    LET filtered == SelectSeq(btbl, LAMBDA b : ~StartsWithWayOrRelation(b.bus_id))
    IN  [i \in 1..Len(filtered) |->
            [bus_id |-> filtered[i].bus_id, country |-> filtered[i].country,
             voltage |-> filtered[i].voltage, lat |-> filtered[i].lat,
             lo |-> filtered[i].geometry - tol, hi |-> filtered[i].geometry + tol,
             area |-> 2 * tol, has_poi |-> FALSE, poi |-> 0]]

\* buses_polygon[columns] buffered by tol, with its area and its poi
buses_polygon_buffer(ptbl, tol) ==
    [i \in 1..Len(ptbl) |->
        [bus_id |-> ptbl[i].bus_id, country |-> ptbl[i].country,
         voltage |-> ptbl[i].voltage, lat |-> ptbl[i].lat,
         lo |-> ptbl[i].lo - tol, hi |-> ptbl[i].hi + tol,
         area |-> ptbl[i].hi - ptbl[i].lo + 2 * tol,
         has_poi |-> TRUE, poi |-> polylabel(ptbl[i].lo - tol, ptbl[i].hi + tol)]]

\* how far the union of the footprints of row lat reaches from a point
\* h of it
RECURSIVE Reach(_, _, _)
Reach(B, lat, h) ==
    LET m == Max({h} \cup {B[i].hi : i \in {j \in DOMAIN B :
                                        B[j].lat = lat /\ B[j].lo <= h}})
    IN  IF m = h THEN h ELSE Reach(B, lat, m)

\* buses_all_buffer.union_all(): the connected regions of the union, row by row from
\* west to east
union_all(B) ==
    LET starts == {<<B[i].lat, B[i].lo>> : i \in {j \in DOMAIN B :
                        ~\E k \in DOMAIN B : /\ B[k].lat = B[j].lat
                                              /\ B[k].lo < B[j].lo /\ B[j].lo <= B[k].hi}}
        geoms == {[lat |-> a[1], lo |-> a[2], hi |-> Reach(B, a[1], a[2])] : a \in starts}
        before(q, r) == q.lat < r.lat \/ (q.lat = r.lat /\ q.lo < r.lo)
    IN  SortSeq([i \in 1..Cardinality(geoms) |->
                    CHOOSE r \in geoms :
                        Cardinality({q \in geoms : before(q, r)}) = i - 1],
                LAMBDA a, b : before(a, b))

\* sjoin(..., predicate="intersects") and groupby('index')['area'].idxmax():
\* the first footprint of largest area that intersects the region
max_area_idx(B, r) ==
    LET hits == {i \in DOMAIN B : B[i].lat = r.lat /\ B[i].lo <= r.hi /\ r.lo <= B[i].hi}
        big == {i \in hits : \A j \in hits : B[j].area <= B[i].area}
    IN  Min(big)

\* buses_all_agg with poi and country set (lines 801-824)
buses_all_agg(B) ==
    LET geoms == union_all(B) IN
    [g \in 1..Len(geoms) |->
        LET m == B[max_area_idx(B, geoms[g])]
            poi == IF m.has_poi THEN m.poi ELSE polylabel(geoms[g].lo, geoms[g].hi)
        IN  [bus_id |-> m.bus_id, lo |-> geoms[g].lo, hi |-> geoms[g].hi,
             lat |-> geoms[g].lat, poi |-> poi, country |-> CountryAt(poi)]]

\* (mutant: the stations of a country are counted from west to east only)
dict_rename_by_lon(agg, g) ==
    << Tok(agg[g].country,
           1 + Cardinality({h \in DOMAIN agg :
                   /\ ~StartsWithWayOrRelation(agg[h].bus_id)
                   /\ agg[h].country = agg[g].country
                   /\ \/ agg[h].poi < agg[g].poi
                      \/ agg[h].poi = agg[g].poi /\ agg[h].lat > agg[g].lat})) >>

\* the new name of a virtual station: country and its rank within the
\* country in the order of sort_values(by=['country', 'lat', 'lon'],
\* ascending=[True, False, True]) and cumcount() + 1
dict_rename(agg, g) ==
    << Tok(agg[g].country,
           1 + Cardinality({h \in DOMAIN agg :
                   /\ ~StartsWithWayOrRelation(agg[h].bus_id)
                   /\ agg[h].country = agg[g].country
                   /\ \/ agg[h].lat > agg[g].lat
                      \/ agg[h].lat = agg[g].lat /\ agg[h].poi < agg[g].poi})) >>

\* lines 826-857: renaming, osm_identifier, id_occurence, station_id
station_ids(agg) ==
    LET renamed == [g \in DOMAIN agg |->
                      IF StartsWithWayOrRelation(agg[g].bus_id)
                        THEN agg[g].bus_id ELSE dict_rename(agg, g)]
        osm_identifier(g) == << renamed[g][1] >>
        id_occurence(g) ==
            Cardinality({h \in DOMAIN agg : osm_identifier(h) = osm_identifier(g)})
    IN  [g \in DOMAIN agg |->
            [station_id |-> IF id_occurence(g) = 1 THEN osm_identifier(g) ELSE renamed[g],
             lo |-> agg[g].lo, hi |-> agg[g].hi, lat |-> agg[g].lat,
             poi |-> agg[g].poi, country |-> agg[g].country]]

\* (mutant: the footprints of the substation polygons are left out)
buses_buffer_only(btbl, ptbl, tol) == buses_buffer(btbl, tol)

\* pd.concat([buses_buffer, buses_polygon_buffer])
buses_all_buffer(btbl, ptbl, tol) ==
    buses_buffer(btbl, tol) \o buses_polygon_buffer(ptbl, tol)

\* the union of all footprints is one Polygon, which has no .geoms
SeedsAttributeError(btbl, ptbl, tol) ==
    Len(union_all(buses_all_buffer(btbl, ptbl, tol))) = 1

_create_station_seeds(btbl, ptbl, tol) ==
    station_ids(buses_all_agg(buses_all_buffer(btbl, ptbl, tol)))

\* ---- merge_stations_lines_by_station_id_and_voltage

\* (mutant: the country of the bus row is kept instead of the station's)
sjoin_row_bus_country(b, sts) ==
    LET hits == SelectSeq(sts, LAMBDA st : st.lat = b.lat /\ st.lo < b.geometry /\ b.geometry < st.hi)
    IN  IF hits = <<>>
          THEN << [index |-> b.index, bus_id |-> b.bus_id, voltage |-> b.voltage,
                   dc |-> b.dc, has_station |-> FALSE, station_id |-> <<>>,
                   country |-> b.country, geometry |-> 0] >>
          ELSE [h \in 1..Len(hits) |->
                  [index |-> b.index, bus_id |-> b.bus_id, voltage |-> b.voltage,
                   dc |-> b.dc, has_station |-> TRUE, station_id |-> hits[h].station_id,
                   country |-> b.country, geometry |-> hits[h].poi]]

\* gpd.sjoin(buses_all, stations, how="left", predicate="within") of one
\* bus row: a row for every station the point lies within, or one row
\* without station; then geometry = poi
sjoin_row(b, sts) ==
    LET hits == SelectSeq(sts, LAMBDA st : st.lat = b.lat /\ st.lo < b.geometry /\ b.geometry < st.hi)
    IN  IF hits = <<>>
          THEN << [index |-> b.index, bus_id |-> b.bus_id, voltage |-> b.voltage,
                   dc |-> b.dc, has_station |-> FALSE, station_id |-> <<>>,
                   country |-> "", geometry |-> 0] >>
          ELSE [h \in 1..Len(hits) |->
                  [index |-> b.index, bus_id |-> b.bus_id, voltage |-> b.voltage,
                   dc |-> b.dc, has_station |-> TRUE, station_id |-> hits[h].station_id,
                   country |-> hits[h].country, geometry |-> hits[h].poi]]

sjoin_within(btbl, sts) ==
    Flatten([i \in 1..Len(btbl) |-> sjoin_row(btbl[i], sts)])

\* drop_duplicates(subset=["station_id", "voltage", "dc", "geometry", "country"])
drop_duplicates(tbl) ==
    LET key(r) == << r.station_id, r.voltage, r.dc, r.geometry, r.country, r.has_station >>
        first == {i \in DOMAIN tbl : ~\E j \in 1..(i - 1) : key(tbl[j]) = key(tbl[i])}
    IN  Flatten([i \in 1..Len(tbl) |-> IF i \in first THEN << tbl[i] >> ELSE <<>>])

\* delta_lon, delta_lat of merge_stations_same_station_id: 0.0001 degrees,
\* about 10 m
delta_lon == 10

\* np.round(x, precision=4): to 0.0001 degrees, about 10 m
RoundPrecision(x) == 10 * ((x + 5) \div 10)

RECURSIVE SumSeq(_)
SumSeq(xs) == IF xs = <<>> THEN 0 ELSE Head(xs) + SumSeq(Tail(xs))

\* g_value.geometry.x.mean()
Mean(xs) == SumSeq(xs) \div Len(xs)

\* the order of the group keys (voltage, country, dc)
GroupKeyLess(a, b) ==
    \/ a[1] < b[1]
    \/ a[1] = b[1] /\ TextRank(a[2]) < TextRank(b[2])
    \/ a[1] = b[1] /\ a[2] = b[2] /\ ~a[3] /\ b[3]

\* g_value.groupby(by=["voltage", "country", "dc"])
GroupKey(r) == << r.voltage, r.country, r.dc >>

\* the group keys in the order groupby iterates over them
SortedKeys(S) ==
    SortSeq([i \in 1..Cardinality(S) |->
                CHOOSE x \in S : Cardinality({y \in S : GroupKeyLess(y, x)}) = i - 1],
            GroupKeyLess)

\* the station ids in the order groupby(by="station_id") iterates over them
SortedNames(S) ==
    SortSeq([i \in 1..Cardinality(S) |->
                CHOOSE x \in S : Cardinality({y \in S : IdLess(y, x)}) = i - 1],
            IdLess)

\* the rows merge_stations_same_station_id makes of the group g_value of
\* station g_name
station_rows(g_name, g_value) ==
    LET station_point_x ==
            RoundPrecision(Mean([i \in 1..Len(g_value) |-> g_value[i].geometry]))
        keys == SortedKeys({GroupKey(g_value[i]) : i \in 1..Len(g_value)})
    IN  [v \in 1..Len(keys) |->
            LET bus_row == SelectSeq(g_value, LAMBDA r : GroupKey(r) = keys[v])
                lon_bus == RoundPrecision(station_point_x + (v - 1) * delta_lon)
            IN  [station_id |-> g_name,
                 voltage |-> bus_row[1].voltage,
                 dc |-> \A i \in 1..Len(bus_row) : bus_row[i].dc,
                 country |-> bus_row[1].country,
                 geometry |-> lon_bus]]

\* buses.groupby(by="station_id"): rows without station_id are left out
merge_stations_same_station_id(tbl) ==
    LET names == SortedNames({tbl[i].station_id : i \in {j \in DOMAIN tbl : tbl[j].has_station}})
        rows == Flatten([g \in 1..Len(names) |->
                    station_rows(names[g],
                                 SelectSeq(tbl, LAMBDA r : r.has_station
                                                    /\ r.station_id = names[g]))])
    IN  [n_buses \in 1..Len(rows) |->
            [index |-> << Tok("", n_buses - 1) >>, bus_id |-> << Tok("", n_buses - 1) >>,
             station_id |-> rows[n_buses].station_id, voltage |-> rows[n_buses].voltage,
             dc |-> rows[n_buses].dc, country |-> rows[n_buses].country,
             geometry |-> rows[n_buses].geometry]]

\* lines 624-628: bus_id = station_id + "-" + kV + ("-DC" if dc), and the
\* bus_id becomes the index
update_bus_id(tbl) ==
    [i \in 1..Len(tbl) |->
        LET id == tbl[i].station_id \o << Tok("", Kilovolts(tbl[i].voltage)) >>
                    \o (IF tbl[i].dc THEN << Tok("DC", -1) >> ELSE <<>>)
        IN  [tbl[i] EXCEPT !.bus_id = id, !.index = id]]

\* ---- set_lines_ids

\* (mutant: the buses are selected by voltage only)
buses_sel_voltage_only(btbl, row) ==
    SelectSeq(btbl, LAMBDA b : b.voltage = row.voltage)

\* busesepsg[(buses["voltage"] == row["voltage"]) & (buses["dc"] == row["dc"])]
buses_sel(btbl, row) ==
    SelectSeq(btbl, LAMBDA b : b.voltage = row.voltage /\ b.dc = row.dc)

\* buses_sel.geometry.distance(point).idxmin(): the index label of the
\* first row at the smallest distance
idxmin_distance(sel, point) ==
    LET best == {i \in DOMAIN sel :
                    \A j \in DOMAIN sel : Dist(sel[i].geometry, point) <= Dist(sel[j].geometry, point)}
    IN  sel[Min(best)].index

\* buses.loc[label]: the rows that carry the label
loc(btbl, label) == SelectSeq(btbl, LAMBDA b : b.index = label)

\* the body of the loop fails for this row: no bus to select from
\* (idxmin of an empty series), or a label that several rows carry
set_lines_ids_fails(row, btbl) ==
    LET sel == buses_sel(btbl, row) IN
    IF sel = <<>> THEN TRUE
    ELSE IF Len(loc(btbl, idxmin_distance(sel, row.geometry[1]))) # 1 THEN TRUE
    ELSE Len(loc(btbl, idxmin_distance(sel, row.geometry[Len(row.geometry)]))) # 1

\* the body of the loop for one row of lines
set_lines_ids_row(row, btbl) ==
    LET sel == buses_sel(btbl, row)
        start == row.geometry[1]
        end == row.geometry[Len(row.geometry)]
        bus0 == loc(btbl, idxmin_distance(sel, start))[1]
        bus1 == loc(btbl, idxmin_distance(sel, end))[1]
        g0 == IF Dist(bus0.geometry, start) > 0
                THEN << bus0.geometry >> \o row.geometry ELSE row.geometry
        g1 == IF Dist(bus1.geometry, end) > 0
                THEN g0 \o << bus1.geometry >> ELSE g0
    IN  [row EXCEPT !.bus0 = bus0.bus_id, !.bus1 = bus1.bus_id, !.geometry = g1]

set_lines_ids(ltbl, btbl) ==
    [i \in 1..Len(ltbl) |-> set_lines_ids_row(ltbl[i], btbl)]

\* line_endings_to_bus_conversion: the coordinates of the two ends
line_endings_to_bus_conversion(ltbl) ==
    [i \in 1..Len(ltbl) |->
        [ltbl[i] EXCEPT !.bus0_lon = ltbl[i].geometry[1],
                        !.bus1_lon = ltbl[i].geometry[Len(ltbl[i].geometry)]]]

\* (mutant: nothing is dropped)
keep_all(ltbl) == ltbl

\* lines.drop(lines[lines["bus0"] == lines["bus1"]].index, inplace=True)
drop_same_node(ltbl) == SelectSeq(ltbl, LAMBDA l : l.bus0 # l.bus1)

\* (mutant: the initial value True is all that is set)
set_lv_initial_only(btbl) ==
    [i \in 1..Len(btbl) |->
        [index |-> btbl[i].index, bus_id |-> btbl[i].bus_id,
         station_id |-> btbl[i].station_id, voltage |-> btbl[i].voltage,
         dc |-> btbl[i].dc, country |-> btbl[i].country,
         geometry |-> btbl[i].geometry, substation_lv |-> TRUE]]

\* set_lv_substations: of the buses that share a station_id the first of
\* lowest voltage is lv, as is every bus that shares its station_id with none
set_lv_substations(btbl) ==
    [i \in 1..Len(btbl) |->
        LET same == {j \in DOMAIN btbl : btbl[j].station_id = btbl[i].station_id}
            lowest == {j \in same : \A k \in same : btbl[j].voltage <= btbl[k].voltage}
        IN  [index |-> btbl[i].index, bus_id |-> btbl[i].bus_id,
             station_id |-> btbl[i].station_id, voltage |-> btbl[i].voltage,
             dc |-> btbl[i].dc, country |-> btbl[i].country,
             geometry |-> btbl[i].geometry,
             substation_lv |-> (Cardinality(same) = 1 \/ i = Min(lowest))]]

\* ---- build_network, from the creation of the station seeds on

\* Bound of the inputs of the clustering alone.
MaxClusterBuses == 3

\* a table of at most one line between the cells a and b; voltage 0: none
LineTable(a, b, voltage, dc) ==
    IF voltage = 0 THEN <<>>
    ELSE << [id |-> 1, voltage |-> voltage, dc |-> dc,
             geometry |-> << CellSize * a, CellSize * b >>,
             bus0 |-> <<>>, bus1 |-> <<>>,
             bus0_lon |-> CellSize * a, bus1_lon |-> CellSize * b] >>

InitTables(n) ==
    /\ \E K \in SubsetsUpTo(BusKinds, n) \ {{}} :
          /\ buses = BusTable(K)
          /\ buses_polygon = PolygonTable(BusTable(K))
    /\ stations = <<>> /\ buses_all = <<>> /\ ret = <<>> /\ out = <<>>
    /\ pc = "seeds"
    /\ IdleS /\ IdleF /\ IdleO /\ IdleN

\* the tables build_network holds when it creates the station seeds
Init ==
    /\ InitTables(MaxBuses)
    /\ \E a, b \in 0..MaxCell, v \in {0} \cup Voltages, w \in {0, 380000} :
          /\ a < b
          /\ lines = LineTable(a, b, v, FALSE)
          /\ links = LineTable(a, b, w, TRUE)

InitCluster ==
    /\ InitTables(MaxClusterBuses)
    /\ lines = <<>> /\ links = <<>>

\* union_all() gives a single Polygon: .geoms raises AttributeError
CreateStationSeedsFails ==
    /\ pc = "seeds"
    /\ SeedsAttributeError(buses, buses_polygon, BUS_TOL)
    /\ pc' = "error"
    /\ UNCHANGED <<varsP, varsS, varsF, varsO, varsN>>

\* stations = _create_station_seeds(buses, buses_polygon, ...)
CreateStationSeeds ==
    /\ pc = "seeds"
    /\ ~SeedsAttributeError(buses, buses_polygon, BUS_TOL)
    /\ stations' = _create_station_seeds(buses, buses_polygon, BUS_TOL)
    /\ pc' = "join"
    /\ UNCHANGED <<buses, buses_polygon, lines, links, buses_all, ret, out,
                   varsS, varsF, varsO, varsN>>

\* lines 610-614: every bus gets the station it lies within
JoinStations ==
    /\ pc = "join"
    /\ buses_all' = sjoin_within(buses, stations)
    /\ pc' = "cluster"
    /\ UNCHANGED <<buses, buses_polygon, lines, links, stations, ret, out,
                   varsS, varsF, varsO, varsN>>

\* lines 616-628: duplicates dropped, one bus per station and voltage
ClusterStations ==
    /\ pc = "cluster"
    /\ LET d == drop_duplicates(buses_all)
       IN  buses_all' = update_bus_id(
                IF d = <<>> THEN d ELSE merge_stations_same_station_id(d))
    /\ pc' = "snap_lines"
    /\ UNCHANGED <<buses, buses_polygon, lines, links, stations, ret, out,
                   varsS, varsF, varsO, varsN>>

\* lines, buses_all = set_lines_ids(lines, buses_all, distance_crs)
SnapLines ==
    /\ pc = "snap_lines"
    /\ \A i \in 1..Len(lines) : ~set_lines_ids_fails(lines[i], buses_all)
    /\ lines' = set_lines_ids(lines, buses_all)
    /\ pc' = "snap_links"
    /\ UNCHANGED <<buses, buses_polygon, links, stations, buses_all, ret, out,
                   varsS, varsF, varsO, varsN>>

SnapLinesFails ==
    /\ pc = "snap_lines"
    /\ \E i \in 1..Len(lines) : set_lines_ids_fails(lines[i], buses_all)
    /\ pc' = "error"
    /\ UNCHANGED <<varsP, varsS, varsF, varsO, varsN>>

\* links, buses = set_lines_ids(links, buses, distance_crs)
SnapLinks ==
    /\ pc = "snap_links"
    /\ \A i \in 1..Len(links) : ~set_lines_ids_fails(links[i], buses)
    /\ links' = set_lines_ids(links, buses)
    /\ pc' = "drop"
    /\ UNCHANGED <<buses, buses_polygon, lines, stations, buses_all, ret, out,
                   varsS, varsF, varsO, varsN>>

SnapLinksFails ==
    /\ pc = "snap_links"
    /\ \E i \in 1..Len(links) : set_lines_ids_fails(links[i], buses)
    /\ pc' = "error"
    /\ UNCHANGED <<varsP, varsS, varsF, varsO, varsN>>

\* lines 640-653: self loops dropped, endings updated, substation_lv set
\* on buses, and lines, links, buses returned
MergeReturn ==
    /\ pc = "drop"
    /\ buses' = set_lv_substations(buses)
    /\ ret' = [lines |-> line_endings_to_bus_conversion(drop_same_node(lines)),
               links |-> line_endings_to_bus_conversion(drop_same_node(links)),
               buses |-> set_lv_substations(buses)]
    /\ pc' = "returned"
    /\ UNCHANGED <<buses_polygon, lines, links, stations, buses_all, out,
                   varsS, varsF, varsO, varsN>>

\* lines 1053-1106: the tables returned by the merge are indexed by their
\* ids, their voltages turned to kV, and returned for export
BuildNetworkReturn ==
    /\ pc = "returned"
    /\ LET InKV(tbl) == [i \in 1..Len(tbl) |->
                            [tbl[i] EXCEPT !.voltage = Kilovolts(tbl[i].voltage)]]
       IN  out' = [buses |-> [i \in 1..Len(ret.buses) |->
                                [InKV(ret.buses)[i] EXCEPT !.index = ret.buses[i].bus_id]],
                   lines |-> InKV(ret.lines),
                   links |-> InKV(ret.links)]
    /\ pc' = "done"
    /\ UNCHANGED <<buses, buses_polygon, lines, links, stations, buses_all, ret,
                   varsS, varsF, varsO, varsN>>

NextCluster ==
    CreateStationSeedsFails \/ CreateStationSeeds \/ JoinStations \/ ClusterStations

Next ==
    \/ CreateStationSeedsFails \/ CreateStationSeeds \/ JoinStations \/ ClusterStations
    \/ SnapLines \/ SnapLinesFails \/ SnapLinks \/ SnapLinksFails
    \/ MergeReturn \/ BuildNetworkReturn

Spec == Init /\ [][Next]_vars

SpecCluster == InitCluster /\ [][NextCluster]_vars

\* ---- properties of the merge

\* the bus ids of a table
BusIds(tbl) == {tbl[i].bus_id : i \in 1..Len(tbl)}

\* C1: in the tables returned by
\* merge_stations_lines_by_station_id_and_voltage and passed on by
\* build_network, bus0 and bus1 of every line and of every link are bus ids
\* of the returned bus table.
C1_EndpointsAreReturnedBuses ==
    pc \in {"returned", "done"} =>
        /\ \A i \in 1..Len(ret.lines) :
              {ret.lines[i].bus0, ret.lines[i].bus1} \subseteq BusIds(ret.buses)
        /\ \A i \in 1..Len(ret.links) :
              {ret.links[i].bus0, ret.links[i].bus1} \subseteq BusIds(ret.buses)

\* C2: after drop_duplicates and merge_stations_same_station_id the
\* clustered bus table holds at most one bus for every combination of
\* station_id, voltage and dc.
C2_OneBusPerStationVoltageDc ==
    pc = "snap_lines" =>
        \A i, j \in 1..Len(buses_all) :
            ( /\ buses_all[i].station_id = buses_all[j].station_id
              /\ buses_all[i].voltage = buses_all[j].voltage
              /\ buses_all[i].dc = buses_all[j].dc ) => i = j

\* C2 witness: two buses of one voltage and polarity lay within the same
\* station seed and the clustering made one bus of them.
C2_Witness ==
    /\ pc = "snap_lines"
    /\ \E i, j \in 1..Len(buses) : \E g \in 1..Len(stations) :
          /\ i < j
          /\ buses[i].voltage = buses[j].voltage /\ buses[i].dc = buses[j].dc
          /\ buses[i].geometry # buses[j].geometry
          /\ stations[g].lo < buses[i].geometry /\ buses[i].geometry < stations[g].hi
          /\ stations[g].lo < buses[j].geometry /\ buses[j].geometry < stations[g].hi
          /\ Cardinality({k \in 1..Len(buses_all) :
                            /\ buses_all[k].station_id = stations[g].station_id
                            /\ buses_all[k].voltage = buses[i].voltage
                            /\ buses_all[k].dc = buses[i].dc}) = 1

\* C3: of the lines and links with their bus ids set, exactly those with
\* bus0 # bus1 are returned: none returned has bus0 = bus1, none with
\* two different buses is dropped.
C3_SelfLoopsDropped ==
    pc \in {"returned", "done"} =>
        /\ \A i \in 1..Len(ret.lines) : ret.lines[i].bus0 # ret.lines[i].bus1
        /\ \A i \in 1..Len(ret.links) : ret.links[i].bus0 # ret.links[i].bus1
        /\ {ret.lines[i].id : i \in 1..Len(ret.lines)}
              = {lines[i].id : i \in {k \in 1..Len(lines) : lines[k].bus0 # lines[k].bus1}}
        /\ {ret.links[i].id : i \in 1..Len(ret.links)}
              = {links[i].id : i \in {k \in 1..Len(links) : links[k].bus0 # links[k].bus1}}

\* C3 witness: a line whose two ends were set to the same bus was dropped.
C3_Witness ==
    /\ pc = "returned"
    /\ \E i \in 1..Len(lines) : lines[i].bus0 = lines[i].bus1 /\ lines[i].bus0 # <<>>
    /\ ret.lines = <<>>

\* the columns the clustered and the raw bus table share
BusView(tbl) ==
    {[bus_id |-> tbl[i].bus_id, voltage |-> tbl[i].voltage, dc |-> tbl[i].dc,
      geometry |-> tbl[i].geometry] : i \in 1..Len(tbl)}

\* C4: the bus table returned by the merge, and passed on by
\* build_network, is the clustered table the lines were snapped to.
C4_ReturnsClusteredBuses ==
    /\ pc \in {"returned", "done"} => BusView(ret.buses) = BusView(buses_all)
    /\ pc = "done" => BusIds(out.buses) = BusIds(buses_all)

SnappedToNearest(row, tbl) ==
    LET alike == {k \in 1..Len(tbl) : tbl[k].voltage = row.voltage /\ tbl[k].dc = row.dc}
        Nearest(id, point) ==
            \E k \in alike :
                /\ tbl[k].bus_id = id
                /\ \A m \in alike :
                      Abs(tbl[k].geometry - point) <= Abs(tbl[m].geometry - point)
    IN  Nearest(row.bus0, row.bus0_lon) /\ Nearest(row.bus1, row.bus1_lon)

\* C6: set_lines_ids sets bus0 and bus1 of every line to the bus_id of a
\* bus nearest to the line's start and end among the buses of the line's
\* voltage and dc flag (lines against the clustered buses, links against
\* the bus table read).
C6_SnappedToNearestAlikeBus ==
    /\ pc \in {"snap_links", "drop"} =>
          \A i \in 1..Len(lines) : SnappedToNearest(lines[i], buses_all)
    /\ pc = "drop" =>
          \A i \in 1..Len(links) : SnappedToNearest(links[i], buses)

\* C6 witness: a link end was set to a DC bus although an AC bus of the
\* link's voltage lies nearer to it.
C6_Witness ==
    /\ pc = "drop"
    /\ \E i \in 1..Len(links) : \E k, m \in 1..Len(buses) :
          /\ buses[k].bus_id = links[i].bus0
          /\ buses[m].voltage = links[i].voltage /\ ~buses[m].dc
          /\ Dist(buses[m].geometry, links[i].bus0_lon)
                < Dist(buses[k].geometry, links[i].bus0_lon)

\* ---------------------------------- get_transformers, set_lv_substations

\* Bound of the input of get_transformers and set_lv_substations: rows of
\* the bus table.
MaxStationBuses == 3

StationNumbers == {1, 2}
StationVoltages == {110000, 220000, 380000}

\* the frequency columns of the line table passed to get_transformers
StationFreqCols == {<<>>, <<"50">>, <<"0">>}

\* The bus tables passed: the stations "way/1", "way/2", and at most one
\* bus for every station, voltage and polarity (line 340: "by
\* construction"); the buses of a table lie at different points.
StationKinds == [station : StationNumbers, voltage : StationVoltages, dc : BOOLEAN]

StationTable(kinds) ==
    update_bus_id(
        [i \in 1..Len(kinds) |->
            [index |-> << Tok("", i - 1) >>, bus_id |-> << Tok("", i - 1) >>,
             station_id |-> << Tok("way/", kinds[i].station) >>,
             voltage |-> kinds[i].voltage, dc |-> kinds[i].dc,
             country |-> "AA", geometry |-> delta_lon * i]])

StationTables ==
    {StationTable(k) : k \in {q \in SeqsOf(StationKinds, 1, MaxStationBuses) :
                                \A i, j \in DOMAIN q : q[i] = q[j] => i = j}}

\* (mutant: the DC buses are not left out)
buses_all_types(btbl) == btbl

\* buses[buses["dc"] != True]
buses_ac(btbl) == SelectSeq(btbl, LAMBDA b : b.dc # TRUE)

\* the group g_value of station g_name in
\* buses_ac.sort_values("voltage", ascending=True).groupby(by="station_id")
transformer_group(btbl, g_name) ==
    SortSeq(SelectSeq(buses_ac(btbl), LAMBDA b : b.station_id = g_name),
            LAMBDA a, b : a.voltage < b.voltage)

\* the rows appended to df_transformers for one station
transformer_data(g_name, g_value) ==
    [id \in 1..(Len(g_value) - 1) |->
        [transformer_id |-> << Tok("transf", -1) >> \o g_name \o << Tok("", id - 1) >>,
         bus0 |-> g_value[id].bus_id,
         bus1 |-> g_value[id + 1].bus_id,
         voltage_bus0 |-> g_value[id].voltage,
         voltage_bus1 |-> g_value[id + 1].voltage,
         country |-> g_value[id].country,
         geometry |-> << g_value[id].geometry, g_value[id + 1].geometry >>,
         bus0_lon |-> 0, bus1_lon |-> 0]]

\* get_ac_frequency(lines) raises IndexError (line 331)
transformers_frequency_error(col) ==
    DOMAIN grid_freq_levels(col) # {} /\ DOMAIN ac_freq_levels(col) = {}

\* get_transformers(buses, lines), lines given by its frequency column:
\* the index of the transformers goes on from that of the lines
get_transformers(btbl, col) ==
    LET names == SortedNames({buses_ac(btbl)[i].station_id : i \in DOMAIN buses_ac(btbl)})
        rows == Flatten([g \in 1..Len(names) |->
                    transformer_data(names[g], transformer_group(btbl, names[g]))])
        init_index == IF col = <<>> THEN 0 ELSE (Len(col) - 1) + 1
    IN  line_endings_to_bus_conversion(
            [k \in 1..Len(rows) |->
                [transformer_id |-> rows[k].transformer_id,
                 bus0 |-> rows[k].bus0, bus1 |-> rows[k].bus1,
                 voltage_bus0 |-> rows[k].voltage_bus0,
                 voltage_bus1 |-> rows[k].voltage_bus1,
                 country |-> rows[k].country, geometry |-> rows[k].geometry,
                 bus0_lon |-> 0, bus1_lon |-> 0,
                 index |-> init_index + (k - 1)]])

InitStation ==
    /\ pc = "station_call"
    /\ tbuses \in StationTables
    /\ tfreq \in StationFreqCols
    /\ transformers = <<>> /\ crow = 0 /\ closest_bus_id = Unset
    /\ IdleOld /\ IdleR /\ IdleM

GetTransformers ==
    /\ pc = "station_call"
    /\ ~transformers_frequency_error(tfreq)
    /\ transformers' = get_transformers(tbuses, tfreq)
    /\ pc' = "transformers_done"
    /\ UNCHANGED <<tbuses, tfreq, crow, closest_bus_id, varsS, varsF, varsO, varsP, varsR, varsM>>

GetTransformersFails ==
    /\ pc = "station_call"
    /\ transformers_frequency_error(tfreq)
    /\ pc' = "transformers_error"
    /\ UNCHANGED <<varsD, varsS, varsF, varsO, varsP, varsR, varsM>>

SetLvSubstations ==
    /\ pc = "station_call"
    /\ tbuses' = set_lv_substations(tbuses)
    /\ pc' = "lv_done"
    /\ UNCHANGED <<tfreq, transformers, crow, closest_bus_id, varsS, varsF, varsO, varsP, varsR, varsM>>

NextStation == GetTransformers \/ GetTransformersFails \/ SetLvSubstations

SpecStation == InitStation /\ [][NextStation]_vars

C13_OneLvBusPerStation ==
    pc = "lv_done" =>
        \A i \in 1..Len(tbuses) :
            LET same == {j \in 1..Len(tbuses) : tbuses[j].station_id = tbuses[i].station_id}
                lv == {j \in same : tbuses[j].substation_lv}
            IN  /\ Cardinality(lv) = 1
                /\ \A j \in lv : \A k \in same : tbuses[j].voltage <= tbuses[k].voltage

\* C13 witness: a station with several buses has its lv bus, and another
\* bus of it has substation_lv = False.
C13_Witness ==
    /\ pc = "lv_done"
    /\ \E i, j \in 1..Len(tbuses) :
          /\ i # j
          /\ tbuses[i].station_id = tbuses[j].station_id
          /\ tbuses[i].voltage < tbuses[j].voltage
          /\ tbuses[i].substation_lv /\ ~tbuses[j].substation_lv

\* ------------------------------------------------------ _find_closest_bus

\* Bound of the input of _find_closest_bus: rows of the bus table.
MaxClosestBuses == 3

\* the places of the buses: on the spot, tol away, and beyond tol
ClosestPositions == {0, BUS_TOL, 2 * BUS_TOL}

ClosestKinds == [dc : BOOLEAN, country : {"AA", "BB"}, geometry : ClosestPositions]

\* the bus tables passed: bus ids 1, 2, ... in row order
ClosestTables ==
    {[i \in 1..Len(k) |->
        [bus_id |-> i, dc |-> k[i].dc, country |-> k[i].country,
         geometry |-> k[i].geometry]] : k \in SeqsOf(ClosestKinds, 1, MaxClosestBuses)}

\* closest_bus_id = None
NoneVal == [type |-> "none", val |-> ""]

\* gdf_buses[gdf_buses["bus_id"] == row]
bus_of(btbl, row) == SelectSeq(btbl, LAMBDA b : b.bus_id = row)

\* gdf_buses[gdf_buses["dc"] == False]
gdf_buses_filtered(btbl) == SelectSeq(btbl, LAMBDA b : b.dc = FALSE)

\* nearest_points(bus_geom, gdf_buses_filtered.union_all())[1]: a point of
\* the union nearest to bus_geom; of two points equally near either can
\* be returned
nearest_geom(btbl, bus_geom) ==
    LET pts == {gdf_buses_filtered(btbl)[i].geometry : i \in DOMAIN gdf_buses_filtered(btbl)}
    IN  {g \in pts : \A h \in pts : Dist(bus_geom, g) <= Dist(bus_geom, h)}

\* gdf_buses_filtered.loc[gdf_buses["geometry"] == nearest_geom]
closest_bus(btbl, g) == SelectSeq(gdf_buses_filtered(btbl), LAMBDA b : b.geometry = g)

\* lines 414-426, for the point g that nearest_points returned
find_closest_bus_result(btbl, row, g, tol) ==
    LET bus == bus_of(btbl, row)
        within_distance == Dist(closest_bus(btbl, g)[1].geometry, bus[1].geometry) <= tol
        in_same_country == closest_bus(btbl, g)[1].country = bus[1].country
    IN  IF within_distance /\ in_same_country
          THEN StrVal(closest_bus(btbl, g)[1].bus_id)
          ELSE NoneVal

InitClosest ==
    /\ pc = "closest_call"
    /\ tbuses \in ClosestTables
    /\ crow \in 1..Len(tbuses)
    /\ tfreq = <<>> /\ transformers = <<>> /\ closest_bus_id = Unset
    /\ IdleOld /\ IdleR /\ IdleM

\* _find_closest_bus(row, buses, distance_crs) returns
FindClosestBus ==
    /\ pc = "closest_call"
    /\ gdf_buses_filtered(tbuses) # <<>>
    /\ \E g \in nearest_geom(tbuses, bus_of(tbuses, crow)[1].geometry) :
          closest_bus_id' = find_closest_bus_result(tbuses, crow, g, BUS_TOL)
    /\ pc' = "closest_done"
    /\ UNCHANGED <<tbuses, tfreq, transformers, crow, varsS, varsF, varsO, varsP, varsR, varsM>>

\* no bus with dc == False: the union is empty and nearest_points raises
\* ValueError
FindClosestBusFails ==
    /\ pc = "closest_call"
    /\ gdf_buses_filtered(tbuses) = <<>>
    /\ pc' = "closest_error"
    /\ UNCHANGED <<varsD, varsS, varsF, varsO, varsP, varsR, varsM>>

NextClosest == FindClosestBus \/ FindClosestBusFails

SpecClosest == InitClosest /\ [][NextClosest]_vars

\* what _find_closest_bus returned is the bus_id of an AC bus nearest to
\* the given bus that is within tol and in the country of the given bus,
\* or it is None and an AC bus nearest to the given bus is farther than tol
\* or in another country
ClosestResultAsStated ==
    LET given == bus_of(tbuses, crow)[1]
        ac == {i \in 1..Len(tbuses) : tbuses[i].dc = FALSE}
        nearest == {i \in ac : \A j \in ac :
                        Dist(tbuses[i].geometry, given.geometry)
                            <= Dist(tbuses[j].geometry, given.geometry)}
    IN  IF closest_bus_id.type = "str"
          THEN \E i \in nearest :
                  /\ tbuses[i].bus_id = closest_bus_id.val
                  /\ Dist(tbuses[i].geometry, given.geometry) <= BUS_TOL
                  /\ tbuses[i].country = given.country
          ELSE /\ closest_bus_id = NoneVal
               /\ \E i \in nearest :
                     \/ Dist(tbuses[i].geometry, given.geometry) > BUS_TOL
                     \/ tbuses[i].country # given.country

\* C12: _find_closest_bus returns the bus_id of the AC bus nearest to the
\* given bus when that bus is within tol and in the given bus's country,
\* and returns None in every other case; the value returned is never a DC
\* bus, a bus farther than tol or a bus of another country.
C12_NearestAcBusOrNone ==
    /\ pc # "closest_error"
    /\ pc = "closest_done" => ClosestResultAsStated

\* the statement of C12 restricted to the calls that return
C12_ReturnedValue == pc = "closest_done" => ClosestResultAsStated

\* ------------------------------------------- build_renewable_profiles

\* Bound of the input of build_renewable_profiles: rows of the regions
\* table.
MaxRegions == 2

\* the snapshots and the grid cells of the cutout
Snapshots == 1..2
Cells == 1..2

\* cutout.grid.to_crs(3035).area / 1e6, square kilometres per cell
area == <<1, 2>>

\* params["capacity_per_sqkm"]
capacity_per_sqkm == 2

\* func(capacity_factor=True, **resource): the mean capacity factor of
\* every cell, in tenths
capacity_factor_of_cutout == <<1, 3>>

\* the shares cutout.availabilitymatrix gives, and the values of the
\* profile the conversion function gives, in tenths
AvailabilityValues == {0, 1}
ProfileValues == {0, 2}

Technologies == {<< "onwind" >>, << "offwind", "ac" >>}
CorrectionFactors == {1, 2}
MinPMaxPu == {0, 2}
MinPNomMax == {0, 2}
ClipPMaxPu == {1, 4}

\* a missing value
NaN == -1

\* regions.empty
regions_never_empty(r) == FALSE

regions_empty(r) == r = <<>>

\* regions.set_index("name").rename_axis("bus").index
bus_index(r) == {r[i] : i \in 1..Len(r)}

\* technology.startswith("offwind")
startswith_offwind(t) == t[1] = "offwind"

\* the sum of f over the set S of cells or snapshots
RECURSIVE SumOver(_, _)
SumOver(S, f) ==
    IF S = {} THEN 0
    ELSE LET x == CHOOSE y \in S : TRUE IN f[x] + SumOver(S \ {x}, f)

\* a @ b: the dot product over the cells
Dot(a, b) == SumOver(Cells, [c \in Cells |-> a[c] * b[c]])

\* capacity_per_sqkm * availability.sum("bus") * area
potential_of(av) ==
    [c \in Cells |->
        capacity_per_sqkm * SumOver(DOMAIN av, [b \in DOMAIN av |-> av[b][c]]) * area[c]]

\* correction_factor * func(capacity_factor=True) * area * capacity_per_sqkm
layout_of(cf) ==
    [c \in Cells |-> cf * capacity_factor_of_cutout[c] * area[c] * capacity_per_sqkm]

\* the capacities func(..., return_capacity=True) gives: matrix @ layout
capacities_of(av, cf) == [b \in DOMAIN av |-> Dot(av[b], layout_of(cf))]

\* (mutant: the shares are added up, the areas left out)
p_nom_max_without_area(av) ==
    [b \in DOMAIN av |-> capacity_per_sqkm * SumOver(Cells, av[b])]

\* capacity_per_sqkm * availability @ area
p_nom_max_of(av) ==
    [b \in DOMAIN av |-> Dot([c \in Cells |-> capacity_per_sqkm * av[b][c]], area)]

\* the average distance of a bus to its cells: a value of haversine that
\* nothing in the script reads again
average_distance_of(index) == [b \in index |-> "distance"]

\* line.intersection(offshore_shape).length / line.length
underwater_fraction_of(index) == [b \in index |-> "fraction"]

\* xr.merge(...): the variables on the union of their bus indexes, missing
\* values where a variable has none; potential has no bus index
merge(vs) ==
    LET index == UNION {DOMAIN vs[v] : v \in DOMAIN vs \ {"potential"}}
    IN  [v \in DOMAIN vs |->
            IF v = "potential" THEN vs[v]
            ELSE [b \in index |-> IF b \in DOMAIN vs[v] THEN vs[v][b] ELSE NaN]]

\* ds["profile"].mean("time") > m, on tenths
mean_time_greater(row, m) == SumOver(Snapshots, row) > m * Cardinality(Snapshots)

\* (mutant: the thresholds are met when reached)
mask_at_least(d, min_p_max_pu, min_p_nom_max) ==
    {b \in DOMAIN d["profile"] :
        /\ SumOver(Snapshots, d["profile"][b]) >= min_p_max_pu * Cardinality(Snapshots)
        /\ d["p_nom_max"][b] >= min_p_nom_max}

\* (ds["profile"].mean("time") > min_p_max_pu) & (ds["p_nom_max"] > min_p_nom_max)
mask(d, min_p_max_pu, min_p_nom_max) ==
    {b \in DOMAIN d["profile"] :
        /\ mean_time_greater(d["profile"][b], min_p_max_pu)
        /\ d["p_nom_max"][b] > min_p_nom_max}

\* ds.sel(bus=...): every variable that has the bus index keeps the buses
\* of the mask
sel(d, keep) ==
    [v \in DOMAIN d |->
        IF v = "potential" THEN d[v]
        ELSE [b \in DOMAIN d[v] \cap keep |-> d[v][b]]]

\* ds["profile"].where(ds["profile"] >= min_p_max_pu, 0)
where_at_least(prof, clip) ==
    [b \in DOMAIN prof |->
        [t \in Snapshots |-> IF prof[b][t] >= clip THEN prof[b][t] ELSE 0]]

\* (mutant: underwater_fraction is added for every technology)
with_underwater_always(d, t, index) ==
    d @@ [underwater_fraction |-> underwater_fraction_of(index)]

\* lines 376-386
with_underwater(d, t, index) ==
    IF startswith_offwind(t)
      THEN d @@ [underwater_fraction |-> underwater_fraction_of(index)]
      ELSE d

NoParams == [min_p_max_pu |-> NaN, min_p_nom_max |-> NaN, clip_p_max_pu |-> NaN]

InitProfiles ==
    /\ pc = "profiles_start"
    /\ \E n \in 0..MaxRegions : regions = [i \in 1..n |-> i]
    /\ technology \in Technologies
    /\ correction_factor \in CorrectionFactors
    /\ params = NoParams
    /\ availability = <<>> /\ profile = <<>> /\ ds = <<>> /\ written = <<>>
    /\ IdleOld /\ IdleD /\ IdleM

\* assert not regions.empty
ReadRegionsFails ==
    /\ pc = "profiles_start"
    /\ regions_empty(regions)
    /\ pc' = "assertion_error"
    /\ UNCHANGED <<varsR, varsS, varsF, varsO, varsP, varsD, varsM>>

\* lines 231-305: the availability matrix of the regions
AvailabilityMatrix ==
    /\ pc = "profiles_start"
    /\ ~regions_empty(regions)
    /\ availability' \in [bus_index(regions) -> [Cells -> AvailabilityValues]]
    /\ pc' = "availability"
    /\ UNCHANGED <<regions, technology, correction_factor, params, profile, ds, written,
                   varsS, varsF, varsO, varsP, varsD, varsM>>

\* lines 307-374: potential, profile, capacities, p_nom_max, distances,
\* and the dataset merged of them
ComputeProfile ==
    /\ pc = "availability"
    /\ profile' \in [bus_index(regions) -> [Snapshots -> ProfileValues]]
    /\ ds' = merge([profile |-> [b \in DOMAIN profile' |->
                                    [t \in Snapshots |-> correction_factor * profile'[b][t]]],
                    weight |-> capacities_of(availability, correction_factor),
                    p_nom_max |-> p_nom_max_of(availability),
                    potential |-> potential_of(availability),
                    average_distance |-> average_distance_of(bus_index(regions))])
    /\ pc' = "merged"
    /\ UNCHANGED <<regions, technology, correction_factor, params, availability, written,
                   varsS, varsF, varsO, varsP, varsD, varsM>>

\* lines 376-386: the underwater fraction of an offshore technology
UnderwaterFraction ==
    /\ pc = "merged"
    /\ ds' = with_underwater(ds, technology, bus_index(regions))
    /\ pc' = "select"
    /\ UNCHANGED <<regions, technology, correction_factor, params, availability, profile,
                   written, varsS, varsF, varsO, varsP, varsD, varsM>>

\* lines 388-394: only the buses of the mask are kept
SelectBuses ==
    /\ pc = "select"
    /\ \E m \in MinPMaxPu, n \in MinPNomMax :
          /\ params' = [params EXCEPT !.min_p_max_pu = m, !.min_p_nom_max = n]
          /\ ds' = sel(ds, mask(ds, m, n))
    /\ pc' = "clip"
    /\ UNCHANGED <<regions, technology, correction_factor, availability, profile, written,
                   varsS, varsF, varsO, varsP, varsD, varsM>>

\* lines 396-398, "clip_p_max_pu" in params
ClipProfile ==
    /\ pc = "clip"
    /\ \E c \in ClipPMaxPu :
          /\ params' = [params EXCEPT !.clip_p_max_pu = c]
          /\ ds' = [ds EXCEPT !["profile"] = where_at_least(ds["profile"], c)]
    /\ pc' = "write"
    /\ UNCHANGED <<regions, technology, correction_factor, availability, profile, written,
                   varsS, varsF, varsO, varsP, varsD, varsM>>

\* "clip_p_max_pu" not in params
NoClipProfile ==
    /\ pc = "clip"
    /\ pc' = "write"
    /\ UNCHANGED <<varsR, varsS, varsF, varsO, varsP, varsD, varsM>>

\* ds.to_netcdf(snakemake.output.profile)
WriteProfile ==
    /\ pc = "write"
    /\ written' = ds
    /\ pc' = "written"
    /\ UNCHANGED <<regions, technology, correction_factor, params, availability, profile,
                   ds, varsS, varsF, varsO, varsP, varsD, varsM>>

NextProfiles ==
    \/ ReadRegionsFails \/ AvailabilityMatrix \/ ComputeProfile \/ UnderwaterFraction
    \/ SelectBuses \/ ClipProfile \/ NoClipProfile \/ WriteProfile

SpecProfiles == InitProfiles /\ [][NextProfiles]_vars

\* the variables of a dataset that have the bus index
PerBus(d) == DOMAIN d \ {"potential"}

\* the installable capacity of bus b: the potentials of its cells added up
InstallableCapacity(b) ==
    SumOver(Cells, [c \in Cells |-> capacity_per_sqkm * availability[b][c] * area[c]])

\* the buses whose mean profile (correction factor applied, before any
\* clipping) and whose p_nom_max are above the thresholds read
BusesAboveThresholds ==
    {b \in bus_index(regions) :
        /\ SumOver(Snapshots, [t \in Snapshots |-> correction_factor * profile[b][t]])
              > params.min_p_max_pu * Cardinality(Snapshots)
        /\ InstallableCapacity(b) > params.min_p_nom_max}

\* C14: the dataset written holds, in every variable that has the bus
\* index, exactly the buses whose time-mean profile is greater than
\* min_p_max_pu and whose p_nom_max is greater than min_p_nom_max.
C14_WrittenBusesAboveThresholds ==
    pc = "written" =>
        \A v \in PerBus(written) : DOMAIN written[v] = BusesAboveThresholds

\* C14 witness: a bus whose mean profile equals min_p_max_pu was removed
\* and another bus was kept.
C14_Witness ==
    /\ pc = "written"
    /\ params.min_p_max_pu > 0
    /\ \E b, k \in bus_index(regions) :
          /\ SumOver(Snapshots, [t \in Snapshots |-> correction_factor * profile[b][t]])
                = params.min_p_max_pu * Cardinality(Snapshots)
          /\ InstallableCapacity(b) > params.min_p_nom_max
          /\ b \notin DOMAIN written["profile"]
          /\ k \in DOMAIN written["profile"]

C16_OneBusIndex ==
    pc = "written" =>
        /\ {"profile", "weight", "p_nom_max", "average_distance"} \subseteq DOMAIN written
        /\ \A v, w \in PerBus(written) : DOMAIN written[v] = DOMAIN written[w]
        /\ \A v \in PerBus(written) : DOMAIN written[v] \subseteq bus_index(regions)
        /\ ("underwater_fraction" \in DOMAIN written) <=> startswith_offwind(technology)

\* C16 witness: an offshore dataset was written with some of the regions
\* removed.
C16_Witness ==
    /\ pc = "written"
    /\ startswith_offwind(technology)
    /\ DOMAIN written["underwater_fraction"] # {}
    /\ DOMAIN written["underwater_fraction"] # bus_index(regions)

\* C17: with an empty regions table the run ends in the assertion error,
\* with no availability, profile or dataset computed and nothing written.
C17_EmptyRegionsStop ==
    Len(regions) = 0 =>
        /\ pc \in {"profiles_start", "assertion_error"}
        /\ availability = <<>> /\ profile = <<>> /\ ds = <<>> /\ written = <<>>

\* C17 witness: the run ended in the assertion error.
C17_Witness == pc = "assertion_error" /\ regions = <<>> /\ written = <<>>

\* ------------- _create_merge_mapping, _merge_lines_over_virtual_buses

\* Bound of the input of the merge of lines over virtual buses: rows of
\* the line table.
MaxMergeLines == 3

\* Lines run between neighbouring points of the grid 0..3 of CellSize
\* metres; buses lie on the inner points 1 and 2.
MergeSegments == {<<0, 1>>, <<1, 2>>, <<2, 3>>}
MergeJoints == {1, 2}
MergeCircuits == {1, 2}

MergeLineKinds == [seg : MergeSegments, voltage : Voltages, circuits : MergeCircuits]

MergeKindRank(k) ==
    (k.seg[1] * 2 + (IF k.voltage = 380000 THEN 1 ELSE 0)) * 2 + (k.circuits - 1)

\* the line table of a list of kinds: line ids "way/1", "way/2", ... (unique)
MergeLineTable(kinds) ==
    [i \in 1..Len(kinds) |->
        [line_id |-> << Tok("way/", i) >>,
         voltage |-> kinds[i].voltage, circuits |-> kinds[i].circuits,
         length |-> CellSize * (kinds[i].seg[2] - kinds[i].seg[1]),
         geometry |-> << CellSize * kinds[i].seg[1], CellSize * kinds[i].seg[2] >>]]

MergeLineTables ==
    {MergeLineTable(q) : q \in {r \in SeqsOf(MergeLineKinds, 1, MaxMergeLines) :
        \A i \in 1..(Len(r) - 1) : MergeKindRank(r[i]) <= MergeKindRank(r[i + 1])}}

\* what lies on an inner point: no bus, a line ending of either voltage
\* outside or inside a substation polygon, or a mapped substation
JointKinds == {"none", "line-end 220", "line-end 380", "line-end 380 in polygon", "way 380"}

\* the bus table and the polygon table of a choice of what lies on the
\* inner points
MergeBusTable(at) ==
    Flatten([j \in 1..2 |->
        IF at[j] = "none" THEN <<>>
        ELSE << [bus_id |-> IF at[j] = "way 380" THEN WayBusId(j, 380) ELSE VirtualBusId(j),
                 voltage |-> IF at[j] = "line-end 220" THEN 220000 ELSE 380000,
                 geometry |-> CellSize * j] >>])

MergePolygonTable(at) ==
    Flatten([j \in 1..2 |->
        IF at[j] \in {"line-end 380 in polygon", "way 380"}
          THEN << [lo |-> CellSize * j - PolyHalf, hi |-> CellSize * j + PolyHalf] >>
          ELSE <<>>])

\* str.startswith("line-end")
starts_with_line_end(id) == Len(id) >= 2 /\ id[1].s = "line" /\ id[2].s = "end"

\* buses_virtual.intersects(buses_polygon.union_all())
intersects_polygons(b, ptbl) ==
    \E i \in DOMAIN ptbl : ptbl[i].lo <= b.geometry /\ b.geometry <= ptbl[i].hi

\* (mutant: the buses inside substation polygons are not dropped)
buses_virtual_with_polygons(btbl, ptbl) ==
    SelectSeq(btbl, LAMBDA b : starts_with_line_end(b.bus_id))

\* lines 867-870
buses_virtual(btbl, ptbl) ==
    SelectSeq(btbl, LAMBDA b : starts_with_line_end(b.bus_id) /\ ~intersects_polygons(b, ptbl))

\* predicate="touches": the point is an end of the line (a closed line has
\* no ends)
touches(b, l) ==
    /\ l.geometry[1] # l.geometry[Len(l.geometry)]
    /\ b.geometry \in {l.geometry[1], l.geometry[Len(l.geometry)]}

\* the line ids joined to the bus and kept by voltage_left == voltage_right
connected_lines(b, ltbl) ==
    {ltbl[i].line_id : i \in {k \in DOMAIN ltbl :
                                touches(b, ltbl[k]) /\ ltbl[k].voltage = b.voltage}}

line_of(ltbl, id) == CHOOSE l \in {ltbl[i] : i \in DOMAIN ltbl} : l.line_id = id

\* (mutant: the count per circuits is not looked at)
any_circuits(b, ltbl) == TRUE

\* groupby(["bus_id", "circuits", "voltage"]).size() == 2, for a bus with
\* two connected lines
same_circuits(b, ltbl) ==
    \A x, y \in connected_lines(b, ltbl) : line_of(ltbl, x).circuits = line_of(ltbl, y).circuits

\* lines 883-900: the buses with two connected lines of their voltage, of
\* the same circuits
buses_to_remove(ltbl, btbl, ptbl) ==
    SelectSeq(buses_virtual(btbl, ptbl),
              LAMBDA b : Cardinality(connected_lines(b, ltbl)) = 2 /\ same_circuits(b, ltbl))

\* the nodes of G
unique_lines(ltbl, rem) == UNION {connected_lines(rem[k], ltbl) : k \in DOMAIN rem}

\* G.add_edges_from(edges): the bus_id of the edge x - y is that of the
\* last row that joins x and y
edge_bus_id(ltbl, rem, x, y) ==
    rem[Max({k \in DOMAIN rem : connected_lines(rem[k], ltbl) = {x, y}})].bus_id

has_edge(ltbl, rem, x, y) ==
    x # y /\ \E k \in DOMAIN rem : connected_lines(rem[k], ltbl) = {x, y}

\* the nodes reachable from the set S
RECURSIVE component_of(_, _, _)
component_of(ltbl, rem, S) ==
    LET more == S \cup {y \in unique_lines(ltbl, rem) :
                            \E x \in S : has_edge(ltbl, rem, x, y)}
    IN  IF more = S THEN S ELSE component_of(ltbl, rem, more)

\* nx.connected_components(G)
connected_components(ltbl, rem) ==
    {component_of(ltbl, rem, {x}) : x \in unique_lines(ltbl, rem)}

\* the ends of the geometry linemerge makes of the lines of a component:
\* the points where an odd number of their ends lie
merged_ends(ltbl, component) ==
    LET ends == {<<x, e>> : x \in component, e \in {1, 2}}
        point(xe) == line_of(ltbl, xe[1]).geometry[xe[2]]
    IN  {p \in {point(xe) : xe \in ends} :
            Cardinality({xe \in ends : point(xe) = p}) % 2 = 1}

\* (mutant: closed linestrings are not dropped)
never_closed(ltbl, component) == FALSE

\* geometry.is_closed
is_closed(ltbl, component) == merged_ends(ltbl, component) = {}

\* the nodes of the highest length: max(...) gives the first of them in
\* the order of the nodes
longest_nodes(ltbl, component) ==
    {x \in component : \A y \in component : line_of(ltbl, y).length <= line_of(ltbl, x).length}

\* linemerge(geometry): the line between the two ends, or a ring, which
\* starts and ends at one point
merged_geometry(ltbl, component) ==
    IF merged_ends(ltbl, component) = {}
      THEN LET p == Min({line_of(ltbl, x).geometry[1] : x \in component}) IN << p, p >>
      ELSE << Min(merged_ends(ltbl, component)), Max(merged_ends(ltbl, component)) >>

\* subgraph_data (the columns country, tag_type and underground left out)
subgraph_data(ltbl, rem, component, first_node, node_longest) ==
    [line_id |-> << Tok("merged", -1), node_longest[1], Tok("+", Cardinality(component) - 1) >>,
     circuits |-> line_of(ltbl, first_node).circuits,
     voltage |-> line_of(ltbl, first_node).voltage,
     geometry |-> merged_geometry(ltbl, component),
     length |-> SumOver(component, [x \in component |-> line_of(ltbl, x).length]),
     contains_lines |-> component,
     contains_buses |-> {edge_bus_id(ltbl, rem, xy[1], xy[2]) :
                            xy \in {pq \in component \X component :
                                        has_edge(ltbl, rem, pq[1], pq[2])}}]

\* the components in the order of their first lines
component_list(ltbl, rem) ==
    LET cs == connected_components(ltbl, rem)
        first(c) == Min({i \in DOMAIN ltbl : ltbl[i].line_id \in c})
    IN  SortSeq([i \in 1..Cardinality(cs) |->
                    CHOOSE c \in cs : Cardinality({d \in cs : first(d) < first(c)}) = i - 1],
                LAMBDA c, d : first(c) < first(d))

\* _create_merge_mapping: merged_lines, closed geometries dropped; is_geo
\* tells whether the loop has made a GeoDataFrame of it
_create_merge_mapping(ltbl, btbl, ptbl, first_node, node_longest) ==
    LET rem == buses_to_remove(ltbl, btbl, ptbl)
        cl == component_list(ltbl, rem)
    IN  [is_geo |-> cl # <<>>,
         rows |-> Flatten([i \in 1..Len(cl) |->
                    IF is_closed(ltbl, cl[i]) THEN <<>>
                    ELSE << subgraph_data(ltbl, rem, cl[i],
                                          first_node[cl[i]], node_longest[cl[i]]) >>])]

\* (mutant: the lines of the merged lines are not removed)
no_lines_to_remove(map) == {}

\* merged_lines_map["contains_lines"].explode().unique()
lines_to_remove(map) == UNION {map[i].contains_lines : i \in DOMAIN map}

\* merged_lines_map["contains_buses"].explode().unique()
contains_buses_to_remove(map) == UNION {map[i].contains_buses : i \in DOMAIN map}

\* lines_merged of _merge_lines_over_virtual_buses
merge_lines(ltbl, map) ==
    LET kept == SelectSeq(ltbl, LAMBDA l : l.line_id \notin lines_to_remove(map))
    IN  [i \in 1..Len(kept) |->
            [line_id |-> kept[i].line_id, voltage |-> kept[i].voltage,
             circuits |-> kept[i].circuits, length |-> kept[i].length,
             geometry |-> kept[i].geometry, contains_lines |-> {kept[i].line_id}]]
        \o [i \in 1..Len(map) |->
            [line_id |-> map[i].line_id, voltage |-> map[i].voltage,
             circuits |-> map[i].circuits, length |-> map[i].length,
             geometry |-> map[i].geometry, contains_lines |-> map[i].contains_lines]]

\* buses_merged of _merge_lines_over_virtual_buses
merge_buses(btbl, map) ==
    SelectSeq(btbl, LAMBDA b : b.bus_id \notin contains_buses_to_remove(map))

InitMerge ==
    /\ pc = "merge_start"
    /\ mlines \in MergeLineTables
    /\ \E at \in [MergeJoints -> JointKinds] :
          mbuses = MergeBusTable(at) /\ mpolygons = MergePolygonTable(at)
    /\ merged_lines_map = <<>> /\ lines_merged = <<>> /\ buses_merged = <<>>
    /\ IdleOld /\ IdleD /\ IdleR

\* merged_lines_map = _create_merge_mapping(lines, buses, buses_polygon)
CreateMergeMapping ==
    /\ pc = "merge_start"
    /\ LET cs == connected_components(mlines, buses_to_remove(mlines, mbuses, mpolygons))
       IN  \E first_node \in [cs -> unique_lines(mlines, buses_to_remove(mlines, mbuses, mpolygons))],
              node_longest \in [cs -> unique_lines(mlines, buses_to_remove(mlines, mbuses, mpolygons))] :
              /\ \A c \in cs : first_node[c] \in c /\ node_longest[c] \in longest_nodes(mlines, c)
              /\ merged_lines_map' =
                    _create_merge_mapping(mlines, mbuses, mpolygons, first_node, node_longest)
    /\ pc' = "mapped"
    /\ UNCHANGED <<mlines, mbuses, mpolygons, lines_merged, buses_merged,
                   varsS, varsF, varsO, varsP, varsD, varsR>>

\* no component at all: merged_lines_map is a plain DataFrame and
\* lines_to_add["geometry"].to_crs raises AttributeError (line 1008)
MergeLinesFails ==
    /\ pc = "mapped"
    /\ ~merged_lines_map.is_geo
    /\ pc' = "merge_error"
    /\ UNCHANGED <<varsM, varsS, varsF, varsO, varsP, varsD, varsR>>

\* lines, buses = _merge_lines_over_virtual_buses(lines, buses, merged_lines_map)
MergeLines ==
    /\ pc = "mapped"
    /\ merged_lines_map.is_geo
    /\ lines_merged' = merge_lines(mlines, merged_lines_map.rows)
    /\ buses_merged' = merge_buses(mbuses, merged_lines_map.rows)
    /\ pc' = "lines_merged"
    /\ UNCHANGED <<mlines, mbuses, mpolygons, merged_lines_map,
                   varsS, varsF, varsO, varsP, varsD, varsR>>

NextMerge == CreateMergeMapping \/ MergeLinesFails \/ MergeLines

SpecMerge == InitMerge /\ [][NextMerge]_vars

\* the rows of the output that list the line id x in contains_lines
RowsContaining(x) == {k \in DOMAIN lines_merged : x \in lines_merged[k].contains_lines}

\* C18: after _merge_lines_over_virtual_buses has returned, every line id
\* of the input is in contains_lines of exactly one line of the output,
\* and that line is either the unchanged row of the line, with
\* contains_lines = [line_id], or a merged line; no line is lost and none
\* is counted twice.
C18_EachLineInOneOutputLine ==
    pc = "lines_merged" =>
        \A i \in DOMAIN mlines :
            /\ Cardinality(RowsContaining(mlines[i].line_id)) = 1
            /\ \A k \in RowsContaining(mlines[i].line_id) :
                  \/ /\ lines_merged[k].line_id = mlines[i].line_id
                     /\ lines_merged[k].contains_lines = {mlines[i].line_id}
                     /\ lines_merged[k].geometry = mlines[i].geometry
                  \/ /\ lines_merged[k].line_id[1].s = "merged"
                     /\ lines_merged[k].line_id \notin {mlines[j].line_id : j \in DOMAIN mlines}

\* a merged line of two lines next to an unchanged row
C18_Witness ==
    /\ pc = "lines_merged"
    /\ \E k, m \in DOMAIN lines_merged :
          /\ Cardinality(lines_merged[k].contains_lines) = 2
          /\ lines_merged[k].line_id[1].s = "merged"
          /\ lines_merged[m].line_id \in {mlines[j].line_id : j \in DOMAIN mlines}

\* C19: every merged line of _create_merge_mapping consists of lines of
\* one voltage and one number of circuits, those the merged line has
\* taken from the first line of its component.
C19_MergedLinesAreUniform ==
    pc \in {"mapped", "lines_merged", "merge_error"} =>
        \A k \in DOMAIN merged_lines_map.rows :
            \A i \in DOMAIN mlines :
                mlines[i].line_id \in merged_lines_map.rows[k].contains_lines =>
                    /\ mlines[i].voltage = merged_lines_map.rows[k].voltage
                    /\ mlines[i].circuits = merged_lines_map.rows[k].circuits

\* a merged line of two lines, beside a line of its voltage and of another
\* number of circuits
C19_Witness ==
    /\ pc = "mapped"
    /\ \E k \in DOMAIN merged_lines_map.rows :
          /\ Cardinality(merged_lines_map.rows[k].contains_lines) = 2
          /\ \E i \in DOMAIN mlines :
                /\ mlines[i].line_id \notin merged_lines_map.rows[k].contains_lines
                /\ mlines[i].voltage = merged_lines_map.rows[k].voltage
                /\ mlines[i].circuits # merged_lines_map.rows[k].circuits

\* the rows of the lines of the voltage of the bus that end at the bus
TouchingOfBusVoltage(b) ==
    {i \in DOMAIN mlines :
        /\ mlines[i].voltage = b.voltage
        /\ mlines[i].geometry[1] # mlines[i].geometry[2]
        /\ b.geometry \in {mlines[i].geometry[1], mlines[i].geometry[2]}}

RemovedBuses ==
    {mbuses[i] : i \in {k \in DOMAIN mbuses :
        mbuses[k].bus_id \notin {buses_merged[j].bus_id : j \in DOMAIN buses_merged}}}

\* C20: a bus is removed by the merging of lines only if its bus_id starts
\* with "line-end", it intersects no substation polygon, and exactly two
\* lines of its own voltage touch it, both of the same number of circuits.
C20_OnlyVirtualBusesOfTwoLinesRemoved ==
    pc = "lines_merged" =>
        \A b \in RemovedBuses :
            /\ b.bus_id[1].s = "line" /\ b.bus_id[2].s = "end"
            /\ \A i \in DOMAIN mpolygons : b.geometry < mpolygons[i].lo \/ mpolygons[i].hi < b.geometry
            /\ Cardinality(TouchingOfBusVoltage(b)) = 2
            /\ \A i, j \in TouchingOfBusVoltage(b) : mlines[i].circuits = mlines[j].circuits

\* one line ending is removed while a line ending inside a substation
\* polygon, between two lines of the same voltage and circuits, stays
C20_Witness ==
    /\ pc = "lines_merged"
    /\ RemovedBuses # {}
    /\ \E j \in DOMAIN buses_merged :
          /\ buses_merged[j].bus_id[1].s = "line"
          /\ \E i \in DOMAIN mpolygons :
                mpolygons[i].lo <= buses_merged[j].geometry /\ buses_merged[j].geometry <= mpolygons[i].hi
          /\ Cardinality(TouchingOfBusVoltage(buses_merged[j])) = 2
          /\ \A i, k \in TouchingOfBusVoltage(buses_merged[j]) : mlines[i].circuits = mlines[k].circuits

\* the connected components whose lines merge into a ring
RingComponents ==
    LET rem == buses_to_remove(mlines, mbuses, mpolygons)
    IN  {c \in connected_components(mlines, rem) : merged_ends(mlines, c) = {}}

\* the buses over which the lines of the component are joined
JunctionBuses(c) ==
    LET rem == buses_to_remove(mlines, mbuses, mpolygons)
    IN  {rem[k] : k \in {j \in DOMAIN rem : connected_lines(rem[j], mlines) \subseteq c}}

\* C21: for a connected component whose lines merge into a closed
\* linestring, _create_merge_mapping gives no merged line, and
\* _merge_lines_over_virtual_buses leaves every line and every junction
\* bus of the component in its output, unchanged.
C21_RingsAreLeftAlone ==
    \A c \in RingComponents :
        /\ pc \in {"mapped", "lines_merged", "merge_error"} =>
              \A k \in DOMAIN merged_lines_map.rows :
                  merged_lines_map.rows[k].contains_lines \cap c = {}
        /\ pc = "lines_merged" =>
              /\ \A i \in DOMAIN mlines :
                    mlines[i].line_id \in c =>
                        Cardinality({k \in DOMAIN lines_merged :
                            /\ lines_merged[k].line_id = mlines[i].line_id
                            /\ lines_merged[k].voltage = mlines[i].voltage
                            /\ lines_merged[k].circuits = mlines[i].circuits
                            /\ lines_merged[k].length = mlines[i].length
                            /\ lines_merged[k].geometry = mlines[i].geometry}) = 1
              /\ \A b \in JunctionBuses(c) :
                    \E j \in DOMAIN buses_merged : buses_merged[j] = b

\* the merge has returned for a table with a ring of two lines joined
\* over a line ending
C21_Witness ==
    /\ pc = "lines_merged"
    /\ \E c \in RingComponents : Cardinality(c) = 2 /\ JunctionBuses(c) # {}

\* ------------------------------------------------ _create_station_seeds

\* Bound of the input of _create_station_seeds: rows of the bus table.
MaxSeedBuses == 3

\* the rows of the grid
SeedLats == {0, 1}

\* AC buses of 380 kV: a mapped substation or a line ending, on a cell of
\* a row of the grid
SeedKinds == [way : BOOLEAN, cell : 0..MaxCell, lat : SeedLats]

SeedKindRank(k) == (k.lat * (MaxCell + 1) + k.cell) * 2 + (IF k.way THEN 1 ELSE 0)

\* the bus table of a set of kinds, rows in the order of SeedKindRank
SeedBusTable(K) ==
    LET ordered == SortSeq(
            [i \in 1..Cardinality(K) |->
                CHOOSE k \in K : Cardinality({m \in K : SeedKindRank(m) < SeedKindRank(k)}) = i - 1],
            LAMBDA a, b : SeedKindRank(a) < SeedKindRank(b))
    IN  [i \in 1..Len(ordered) |->
            LET k == ordered[i] IN
            [index |-> i,
             bus_id |-> IF k.way THEN WayBusId(SeedKindRank(k), 380)
                                 ELSE VirtualBusId(SeedKindRank(k)),
             station_id |-> IF k.way THEN << Tok("way/", SeedKindRank(k)) >>
                                     ELSE VirtualBusId(SeedKindRank(k)),
             voltage |-> 380000,
             dc |-> FALSE,
             country |-> CountryAt(CellSize * k.cell),
             geometry |-> CellSize * k.cell, lat |-> k.lat]]

InitSeeds ==
    /\ \E K \in SubsetsUpTo(SeedKinds, MaxSeedBuses) \ {{}} :
          /\ buses = SeedBusTable(K)
          /\ buses_polygon = PolygonTable(SeedBusTable(K))
    /\ lines = <<>> /\ links = <<>>
    /\ stations = <<>> /\ buses_all = <<>> /\ ret = <<>> /\ out = <<>>
    /\ pc = "seeds"
    /\ IdleS /\ IdleF /\ IdleO /\ IdleN

NextSeeds == CreateStationSeedsFails \/ CreateStationSeeds

SpecSeeds == InitSeeds /\ [][NextSeeds]_vars

\* the footprints: the buffered line endings and the buffered polygons
Footprints ==
    LET filtered == SelectSeq(buses, LAMBDA b : b.bus_id[1].s \notin {"way/", "relation/"})
    IN  [i \in 1..Len(filtered) |->
            [lat |-> filtered[i].lat,
             lo |-> filtered[i].geometry - BUS_TOL, hi |-> filtered[i].geometry + BUS_TOL]]
        \o [i \in 1..Len(buses_polygon) |->
            [lat |-> buses_polygon[i].lat,
             lo |-> buses_polygon[i].lo - BUS_TOL, hi |-> buses_polygon[i].hi + BUS_TOL]]

\* the footprints joined to those of S by a chain of footprints that meet
RECURSIVE FootprintsJoined(_)
FootprintsJoined(S) ==
    LET more == S \cup {j \in DOMAIN Footprints : \E i \in S :
                            /\ Footprints[i].lat = Footprints[j].lat
                            /\ Footprints[i].lo <= Footprints[j].hi
                            /\ Footprints[j].lo <= Footprints[i].hi}
    IN  IF more = S THEN S ELSE FootprintsJoined(more)

\* the connected regions of the union of the footprints
FootprintRegions == {FootprintsJoined({i}) : i \in DOMAIN Footprints}

\* station g is not an actual substation
NotSubstation(g) == stations[g].station_id[1].s \notin {"way/", "relation/"}

\* station h comes before station g from north to south, then from west
\* to east
ComesBefore(h, g) ==
    \/ stations[h].lat > stations[g].lat
    \/ stations[h].lat = stations[g].lat /\ stations[h].poi < stations[g].poi

\* C23: _create_station_seeds returns one station for every connected
\* region of the union of the buffered buses and polygons, no two
\* stations have the same station_id, and a station that is not an actual
\* substation is named by its country and its number within the country,
\* counted from 1 from north to south and then from west to east.
C23_OneNamedStationPerRegion ==
    pc = "join" =>
        /\ Len(stations) = Cardinality(FootprintRegions)
        /\ \A c \in FootprintRegions :
              Cardinality({g \in DOMAIN stations :
                  /\ stations[g].lat \in {Footprints[i].lat : i \in c}
                  /\ stations[g].lo = Min({Footprints[i].lo : i \in c})
                  /\ stations[g].hi = Max({Footprints[i].hi : i \in c})}) = 1
        /\ \A g, h \in DOMAIN stations :
              g # h => stations[g].station_id # stations[h].station_id
        /\ \A g \in DOMAIN stations :
              NotSubstation(g) =>
                  stations[g].station_id =
                      << Tok(stations[g].country,
                             1 + Cardinality({h \in DOMAIN stations :
                                    /\ NotSubstation(h)
                                    /\ stations[h].country = stations[g].country
                                    /\ ComesBefore(h, g)})) >>

\* two stations of line endings in one country, the northern one east of
\* the southern one, and a substation
C23_Witness ==
    /\ pc = "join"
    /\ \E g, h, w \in DOMAIN stations :
          /\ NotSubstation(g) /\ NotSubstation(h) /\ ~NotSubstation(w)
          /\ stations[g].country = stations[h].country
          /\ stations[g].lat > stations[h].lat /\ stations[g].poi > stations[h].poi
          /\ stations[g].station_id[1].n = 1 /\ stations[h].station_id[1].n = 2

====
